---- MODULE Spec2Model ----
(***************************************************************************)
(* Model of the harmonic visualizer's music-theory library and of the      *)
(* chord / scale resolution routes.                                        *)
(*                                                                         *)
(* Text is modelled as a sequence of one-character strings, so that the    *)
(* regular expressions, trims and concatenations of the source are         *)
(* computed character by character: "C#3" is <<"C", "#", "3">>.            *)
(* A JavaScript null result is the record NULL; an optional field          *)
(* (octave?: number) is a sequence that is empty or holds the one value.   *)
(***************************************************************************)
EXTENDS Integers, Sequences, FiniteSets, TLC

VARIABLES
  op, arg, ret,     \* the last call: its name, its input and its result
  harmonicPoints,   \* the array HARMONIC_POINTS of harmonics.ts
  allKeys,          \* the array ALL_KEYS of keys.ts
  env,              \* process.env: is Supabase configured, is the API key set
  cache,            \* the table cache of the store: prompt -> response text
  reqs,             \* the requests to the routes: where each one stands
  page              \* the state of the page component Home and its fetches

vars == <<op, arg, ret, harmonicPoints, allKeys, env, cache, reqs, page>>

\* the state of the routes
routeState == <<env, cache, reqs>>

\* the module-level arrays
tables == <<harmonicPoints, allKeys>>

NULL == [null |-> TRUE]

\* the outcome of a call that throws instead of returning
THROWN == [thrown |-> TRUE]

(***************************************************************************)
(* Bounds of the model.                                                    *)
(***************************************************************************)
\* longest raw text handed to parseNote
MaxNoteLen == 3
\* longest tone list of an LLM answer
MaxTones == 2
\* largest stringCount handed to the tuning builder
MaxStringCount == 8
\* longest list of custom tuning inputs
MaxCustomInputs == 3
\* highest open pitch handed to computeHarmonicsForString
MaxOpenMidi == 72
\* largest fretCount handed to buildFretboardNotes, beside the page's own
MaxFretCount == 3
\* longest raw text handed to makeCachePrompt
MaxPromptLen == 4
\* number of requests to the routes in one run
MaxRequests == 2
\* number of fetches the page starts in one run
MaxFetches == 2

(***************************************************************************)
(* Text helpers: what String.prototype.trim, a regular expression's        *)
(* alternatives and RegExp.prototype.test do.                              *)
(***************************************************************************)
\* the blank, the tab and the line feed stand for the characters \s and
\* trim() take
WhiteSpace == {" ", "\t", "\n"}

\* the line feed stands for the line terminators, which . does not match
LineTerminators == {"\n"}

UpperLetters == {"A", "B", "C", "D", "E", "F", "G"}
LowerLetters == {"a", "b", "c", "d", "e", "f", "g"}
NoteLetters == UpperLetters \cup LowerLetters
Accidentals == {"#", "b"}
Digits == {"0", "1", "2", "3", "4", "5", "6", "7", "8", "9"}

\* the characters [a-zA-Z] that occur in the texts of the model
AsciiLetters ==
  NoteLetters \cup {"M", "m", "j", "i", "n", "u", "s", "o", "d", "x", "H", "h"}

toUpperCase(c) ==
  CASE c = "a" -> "A" [] c = "b" -> "B" [] c = "c" -> "C" [] c = "d" -> "D"
    [] c = "e" -> "E" [] c = "f" -> "F" [] c = "g" -> "G" [] OTHER -> c

DigitValue(c) ==
  CASE c = "0" -> 0 [] c = "1" -> 1 [] c = "2" -> 2 [] c = "3" -> 3
    [] c = "4" -> 4 [] c = "5" -> 5 [] c = "6" -> 6 [] c = "7" -> 7
    [] c = "8" -> 8 [] c = "9" -> 9

RECURSIVE TrimStart(_)
TrimStart(s) ==
  IF s # <<>> /\ Head(s) \in WhiteSpace THEN TrimStart(Tail(s)) ELSE s

RECURSIVE TrimEnd(_)
TrimEnd(s) ==
  IF s # <<>> /\ s[Len(s)] \in WhiteSpace
    THEN TrimEnd(SubSeq(s, 1, Len(s) - 1))
    ELSE s

trim(s) == TrimEnd(TrimStart(s))

\* s.slice(n): the text from 0-based index n on
slice(s, n) == SubSeq(s, n + 1, Len(s))

\* /^p/.test(s)
StartsWith(s, p) == Len(s) >= Len(p) /\ SubSeq(s, 1, Len(p)) = p

\* /p/.test(s) for a literal p
Contains(s, p) ==
  \E i \in 1..(Len(s) - Len(p) + 1) : SubSeq(s, i, i + Len(p) - 1) = p

Range(seq) == {seq[i] : i \in 1..Len(seq)}

AllDigits(s) == \A i \in 1..Len(s) : s[i] \in Digits

\* Number(text) of a text matched by -?\d+
RECURSIVE DigitsToNumber(_)
DigitsToNumber(s) ==
  IF s = <<>> THEN 0
  ELSE 10 * DigitsToNumber(SubSeq(s, 1, Len(s) - 1)) + DigitValue(s[Len(s)])

Number(s) ==
  IF Head(s) = "-" THEN 0 - DigitsToNumber(Tail(s)) ELSE DigitsToNumber(s)

(***************************************************************************)
(* notes.ts                                                                *)
(***************************************************************************)
PitchClass == 0..11

NOTE_TO_PC ==
  (<<"C">> :> 0) @@ (<<"B", "#">> :> 0) @@ (<<"C", "#">> :> 1) @@
  (<<"D", "b">> :> 1) @@ (<<"D">> :> 2) @@ (<<"D", "#">> :> 3) @@
  (<<"E", "b">> :> 3) @@ (<<"E">> :> 4) @@ (<<"F", "b">> :> 4) @@
  (<<"E", "#">> :> 5) @@ (<<"F">> :> 5) @@ (<<"F", "#">> :> 6) @@
  (<<"G", "b">> :> 6) @@ (<<"G">> :> 7) @@ (<<"G", "#">> :> 8) @@
  (<<"A", "b">> :> 8) @@ (<<"A">> :> 9) @@ (<<"A", "#">> :> 10) @@
  (<<"B", "b">> :> 10) @@ (<<"B">> :> 11) @@ (<<"C", "b">> :> 11)

\* 0-based tables, read through pitchClassToName
SHARP_NAMES ==
  << <<"C">>, <<"C", "#">>, <<"D">>, <<"D", "#">>, <<"E">>, <<"F">>,
     <<"F", "#">>, <<"G">>, <<"G", "#">>, <<"A">>, <<"A", "#">>, <<"B">> >>

FLAT_NAMES ==
  << <<"C">>, <<"D", "b">>, <<"D">>, <<"E", "b">>, <<"E">>, <<"F">>,
     <<"G", "b">>, <<"G">>, <<"A", "b">>, <<"A">>, <<"B", "b">>, <<"B">> >>

\* ((n % 12) + 12) % 12: the pitch class of any integer, negative ones too
NormalizePc(n) == ((n % 12) + 12) % 12

\* NoteRegexExec without the closing $ of the pattern: the text after the
\* accidental is an octave when it is one, and is ignored otherwise
NoteRegexExec_unanchored(s) ==
  IF s = <<>> \/ Head(s) \notin NoteLetters THEN NULL
  ELSE
    LET afterLetter == Tail(s)
        hasAcc == afterLetter # <<>> /\ Head(afterLetter) \in Accidentals
        accidental == IF hasAcc THEN <<Head(afterLetter)>> ELSE <<>>
        rest == IF hasAcc THEN Tail(afterLetter) ELSE afterLetter
        digits == IF rest # <<>> /\ Head(rest) = "-" THEN Tail(rest) ELSE rest
    IN IF digits # <<>> /\ AllDigits(digits)
         THEN [letter |-> Head(s), accidental |-> accidental, octaveRaw |-> rest]
         ELSE [letter |-> Head(s), accidental |-> accidental, octaveRaw |-> <<>>]

\* the match of /^([A-Ga-g])([#b]?)(-?\d+)?$/ on s, or NULL. The groups are
\* greedy; an accidental that was taken is never given back, because no
\* octave starts with # or b. octaveRaw is <<>> when the group is undefined.
NoteRegexExec(s) ==
  IF s = <<>> \/ Head(s) \notin NoteLetters THEN NULL
  ELSE
    LET afterLetter == Tail(s)
        hasAcc == afterLetter # <<>> /\ Head(afterLetter) \in Accidentals
        accidental == IF hasAcc THEN <<Head(afterLetter)>> ELSE <<>>
        rest == IF hasAcc THEN Tail(afterLetter) ELSE afterLetter
        digits == IF rest # <<>> /\ Head(rest) = "-" THEN Tail(rest) ELSE rest
    IN IF rest = <<>>
         THEN [letter |-> Head(s), accidental |-> accidental, octaveRaw |-> <<>>]
       ELSE IF digits # <<>> /\ AllDigits(digits)
         THEN [letter |-> Head(s), accidental |-> accidental, octaveRaw |-> rest]
       ELSE NULL

\* parseNote without letter.toUpperCase()
parseNote_noUpperCase(input) ==
  LET trimmed == trim(input) IN
  IF trimmed = <<>> THEN NULL
  ELSE
    LET match == NoteRegexExec(trimmed) IN
    IF match = NULL THEN NULL
    ELSE
      LET symbol == <<match.letter>> \o match.accidental IN
      IF symbol \notin DOMAIN NOTE_TO_PC THEN NULL
      ELSE [name |-> symbol,
            pitchClass |-> NOTE_TO_PC[symbol],
            octave |-> IF match.octaveRaw # <<>>
                         THEN <<Number(match.octaveRaw)>>
                         ELSE <<>>]

parseNote(input) ==
  LET trimmed == trim(input) IN
  IF trimmed = <<>> THEN NULL
  ELSE
    LET match == NoteRegexExec(trimmed) IN
    IF match = NULL THEN NULL
    ELSE
      LET symbol == <<toUpperCase(match.letter)>> \o match.accidental IN
      IF symbol \notin DOMAIN NOTE_TO_PC THEN NULL
      ELSE [name |-> symbol,
            pitchClass |-> NOTE_TO_PC[symbol],
            octave |-> IF match.octaveRaw # <<>>
                         THEN <<Number(match.octaveRaw)>>
                         ELSE <<>>]

pitchClassToName(pc, preferSharps) ==
  LET index == NormalizePc(pc) IN
  IF preferSharps THEN SHARP_NAMES[index + 1] ELSE FLAT_NAMES[index + 1]

RECURSIVE uniquePitchClasses(_)
\* Array.from(new Set(values.map(normalize))): first occurrences, in order
uniquePitchClasses(values) ==
  IF values = <<>> THEN <<>>
  ELSE
    LET front == uniquePitchClasses(SubSeq(values, 1, Len(values) - 1))
        last == NormalizePc(values[Len(values)])
    IN IF \E i \in 1..Len(front) : front[i] = last
         THEN front
         ELSE Append(front, last)

(***************************************************************************)
(* keys.ts                                                                 *)
(***************************************************************************)
MajorMode == <<"m", "a", "j", "o", "r">>
MinorMode == <<"m", "i", "n", "o", "r">>
Mode == {MajorMode, MinorMode}

\* Record<PitchClass, string>, read at index root + 1
MAJOR_KEY_NAME ==
  << <<"C">>, <<"D", "b">>, <<"D">>, <<"E", "b">>, <<"E">>, <<"F">>,
     <<"F", "#">>, <<"G">>, <<"A", "b">>, <<"A">>, <<"B", "b">>, <<"B">> >>

MINOR_KEY_NAME ==
  << <<"C">>, <<"C", "#">>, <<"D">>, <<"E", "b">>, <<"E">>, <<"F">>,
     <<"F", "#">>, <<"G">>, <<"G", "#">>, <<"A">>, <<"B", "b">>, <<"B">> >>

MAJOR_INTERVALS == <<0, 2, 4, 5, 7, 9, 11>>
MINOR_INTERVALS == <<0, 2, 3, 5, 7, 8, 10>>

\* buildScale without the % 12
buildScale_noWrap(root, mode) ==
  LET intervals == IF mode = MajorMode THEN MAJOR_INTERVALS ELSE MINOR_INTERVALS
  IN [i \in 1..Len(intervals) |-> root + intervals[i]]

buildScale(root, mode) ==
  LET intervals == IF mode = MajorMode THEN MAJOR_INTERVALS ELSE MINOR_INTERVALS
  IN [i \in 1..Len(intervals) |-> (root + intervals[i]) % 12]

\* keySetFromRoot with the label spelled by the global sharp table
keySetFromRoot_sharpName(root, mode) ==
  [root |-> root,
   label |-> pitchClassToName(root, TRUE) \o <<" ">> \o mode,
   mode |-> mode,
   scale |-> buildScale(root, mode)]

keySetFromRoot(root, mode) ==
  LET table == IF mode = MajorMode THEN MAJOR_KEY_NAME ELSE MINOR_KEY_NAME
      displayName == IF (root + 1) \in DOMAIN table
                       THEN table[root + 1]
                       ELSE pitchClassToName(root, TRUE)
  IN [root |-> root,
      label |-> displayName \o <<" ">> \o mode,
      mode |-> mode,
      scale |-> buildScale(root, mode)]

\* for pc = 0..11: push the major key of pc, then its minor key
ALL_KEYS ==
  [i \in 1..24 |->
     keySetFromRoot((i - 1) \div 2, IF (i - 1) % 2 = 0 THEN MajorMode ELSE MinorMode)]

\* key.scale.includes(normalized pc), false without a key
isPitchClassInKey(pc, key) ==
  IF key = NULL THEN FALSE
  ELSE \E i \in 1..Len(key.scale) : key.scale[i] = NormalizePc(pc)

(***************************************************************************)
(* chords.ts                                                               *)
(***************************************************************************)
QUALITY_MAP ==
  (<<>> :> <<0, 4, 7>>) @@
  (<<"m", "a", "j">> :> <<0, 4, 7>>) @@
  (<<"M">> :> <<0, 4, 7>>) @@
  (<<"+">> :> <<0, 4, 8>>) @@
  (<<"a", "u", "g">> :> <<0, 4, 8>>) @@
  (<<"m">> :> <<0, 3, 7>>) @@
  (<<"m", "i", "n">> :> <<0, 3, 7>>) @@
  (<<"-">> :> <<0, 3, 7>>) @@
  (<<"d", "i", "m">> :> <<0, 3, 6>>) @@
  (<<"o">> :> <<0, 3, 6>>) @@
  (<<"s", "u", "s", "2">> :> <<0, 2, 7>>) @@
  (<<"s", "u", "s", "4">> :> <<0, 5, 7>>)

\* if (!intervals.includes(ext)) intervals.push(ext)
addExtension(intervals, ext) ==
  IF \E i \in 1..Len(intervals) : intervals[i] = ext
    THEN intervals
    ELSE Append(intervals, ext)

\* const idx = intervals.indexOf(from); if (idx >= 0) intervals[idx] = to
ReplaceFirst(intervals, from, to) ==
  IF \E i \in 1..Len(intervals) : intervals[i] = from
    THEN LET idx == CHOOSE i \in 1..Len(intervals) :
                      /\ intervals[i] = from
                      /\ \A j \in 1..(i - 1) : intervals[j] # from
         IN [intervals EXCEPT ![idx] = to]
    ELSE intervals

\* the alternatives of /^(maj|min|dim|aug|M|m|\+|-|o)/, in the order tried
QualityAlternatives ==
  << <<"m", "a", "j">>, <<"m", "i", "n">>, <<"d", "i", "m">>,
     <<"a", "u", "g">>, <<"M">>, <<"m">>, <<"+">>, <<"-">>, <<"o">> >>

\* QualityMatch that takes a text starting with no quality token as an
\* unknown quality key instead of the empty one
QualityMatch_unknownKey(qualityRaw) ==
  IF StartsWith(qualityRaw, <<"s", "u", "s", "2">>)
       \/ StartsWith(qualityRaw, <<"s", "u", "s", "4">>)
    THEN [qualityKey |-> SubSeq(qualityRaw, 1, 4),
          remainder |-> slice(qualityRaw, 4)]
  ELSE IF \E i \in 1..Len(QualityAlternatives) :
            StartsWith(qualityRaw, QualityAlternatives[i])
    THEN LET first == CHOOSE i \in 1..Len(QualityAlternatives) :
                        /\ StartsWith(qualityRaw, QualityAlternatives[i])
                        /\ \A j \in 1..(i - 1) :
                             ~StartsWith(qualityRaw, QualityAlternatives[j])
             qualityKey == QualityAlternatives[first]
         IN [qualityKey |-> qualityKey,
             remainder |-> slice(qualityRaw, Len(qualityKey))]
  ELSE [qualityKey |-> qualityRaw, remainder |-> <<>>]

\* the quality token and the text after it (lines 43-55): sus2 / sus4
\* first, then the first alternative that the text starts with, else "".
QualityMatch(qualityRaw) ==
  IF StartsWith(qualityRaw, <<"s", "u", "s", "2">>)
       \/ StartsWith(qualityRaw, <<"s", "u", "s", "4">>)
    THEN [qualityKey |-> SubSeq(qualityRaw, 1, 4),
          remainder |-> slice(qualityRaw, 4)]
  ELSE IF \E i \in 1..Len(QualityAlternatives) :
            StartsWith(qualityRaw, QualityAlternatives[i])
    THEN LET first == CHOOSE i \in 1..Len(QualityAlternatives) :
                        /\ StartsWith(qualityRaw, QualityAlternatives[i])
                        /\ \A j \in 1..(i - 1) :
                             ~StartsWith(qualityRaw, QualityAlternatives[j])
             qualityKey == QualityAlternatives[first]
         IN [qualityKey |-> qualityKey,
             remainder |-> slice(qualityRaw, Len(qualityKey))]
  ELSE [qualityKey |-> <<>>, remainder |-> qualityRaw]

\* /maj7|..7|M7/.test(remainder): the second alternative of the source is
\* the two characters U+00CE and U+201D before the 7, not the triangle sign
\* U+0394, which the model writes "Delta"
hasMaj7(remainder) ==
  \/ Contains(remainder, <<"m", "a", "j", "7">>)
  \/ Contains(remainder, <<"U+00CE", "U+201D", "7">>)
  \/ Contains(remainder, <<"M", "7">>)

\* /(^|[^a-zA-Z])7/.test(remainder) && !hasMaj7
hasDom7(remainder) ==
  /\ \E i \in 1..Len(remainder) :
       /\ remainder[i] = "7"
       /\ (i = 1 \/ remainder[i - 1] \notin AsciiLetters)
  /\ ~hasMaj7(remainder)

\* lines 65-80: the sevenths, the extensions and the altered fifths, applied
\* in the order of the source
ApplySeventh(intervals, qualityKey, remainder) ==
  LET hasMin7 == StartsWith(qualityKey, <<"m">>) /\ hasDom7(remainder) IN
  IF hasMaj7(remainder) THEN addExtension(intervals, 11)
  ELSE IF hasDom7(remainder) \/ hasMin7 THEN addExtension(intervals, 10)
  ELSE intervals

ApplyExtensions(intervals, remainder) ==
  LET i9 == IF Contains(remainder, <<"9">>)
              THEN addExtension(intervals, 14) ELSE intervals
      i11 == IF Contains(remainder, <<"1", "1">>)
               THEN addExtension(i9, 17) ELSE i9
      i13 == IF Contains(remainder, <<"1", "3">>)
               THEN addExtension(i11, 21) ELSE i11
      ib9 == IF Contains(remainder, <<"b", "9">>)
               THEN addExtension(i13, 13) ELSE i13
      ib13 == IF Contains(remainder, <<"b", "1", "3">>)
                THEN addExtension(ib9, 20) ELSE ib9
  IN ib13

\* ApplyFifths that adds the altered fifth and keeps the perfect one
ApplyFifths_keepFifth(intervals, remainder) ==
  LET flat == IF Contains(remainder, <<"b", "5">>)
                   \/ Contains(remainder, <<"d", "i", "m", "5">>)
                THEN addExtension(intervals, 6) ELSE intervals
      sharp == IF Contains(remainder, <<"#", "5">>)
                    \/ Contains(remainder, <<"+", "5">>)
                 THEN addExtension(flat, 8) ELSE flat
  IN sharp

ApplyFifths(intervals, remainder) ==
  LET flat == IF Contains(remainder, <<"b", "5">>)
                   \/ Contains(remainder, <<"d", "i", "m", "5">>)
                THEN ReplaceFirst(intervals, 7, 6) ELSE intervals
      sharp == IF Contains(remainder, <<"#", "5">>)
                    \/ Contains(remainder, <<"+", "5">>)
                 THEN ReplaceFirst(flat, 7, 8) ELSE flat
  IN sharp

\* the match of /^([A-Ga-g][#b]?)(.*)$/ on s, or NULL: the expression has
\* no flag, so (.*) stops at a line terminator and $ matches only at the
\* end of s
ChordRegexExec(s) ==
  IF s = <<>> \/ Head(s) \notin NoteLetters THEN NULL
  ELSE IF \E i \in 2..Len(s) : s[i] \in LineTerminators THEN NULL
  ELSE
    LET hasAcc == Len(s) >= 2 /\ s[2] \in Accidentals
        rootLen == IF hasAcc THEN 2 ELSE 1
    IN [rootSymbol |-> SubSeq(s, 1, rootLen), rest |-> slice(s, rootLen)]

parseChordLocally(input) ==
  LET trimmed == trim(input) IN
  IF trimmed = <<>> THEN NULL
  ELSE
    LET match == ChordRegexExec(trimmed) IN
    IF match = NULL THEN NULL
    ELSE
      LET qualityRaw == trim(match.rest)
          root == parseNote(match.rootSymbol)
      IN
      IF root = NULL THEN NULL
      ELSE
        LET q == QualityMatch(qualityRaw) IN
        IF q.qualityKey \notin DOMAIN QUALITY_MAP THEN NULL
        ELSE
          LET base == QUALITY_MAP[q.qualityKey]
              intervals ==
                ApplyFifths(
                  ApplyExtensions(
                    ApplySeventh(base, q.qualityKey, q.remainder),
                    q.remainder),
                  q.remainder)
              pcs == uniquePitchClasses(
                       [i \in 1..Len(intervals) |->
                          NormalizePc((root.pitchClass + intervals[i]) % 12)])
          IN [root |-> root,
              pitchClasses |-> pcs,
              label |-> pitchClassToName(root.pitchClass, TRUE) \o qualityRaw,
              source |-> "local"]

(***************************************************************************)
(* app/api/chord/route.ts and app/api/scale/route.ts: resolution by the    *)
(* LLM. A fetch either throws, answers with a status that is not ok, or    *)
(* answers ok with a content; a content is absent, or text JSON.parse or   *)
(* the shape test of safeParse rejects, or a JSON object                   *)
(*   [label, root, tones: sequence of [note, degree]]                      *)
(* (the chord route ignores the label), or a JSON object of the earlier    *)
(* schema [label, root, notes: sequence of names]. Degree labels are never *)
(* parsed, so they are plain strings.                                      *)
(***************************************************************************)
ChordSuffix == <<" ", "c", "h", "o", "r", "d">>

\* safeParse of the chord route: the parsed value when root is a string and
\* tones an array, else null
safeParse(content) ==
  IF content.kind = "json" /\ {"root", "tones"} \subseteq DOMAIN content.value
    THEN content.value
    ELSE NULL

\* safeParse of the scale route: label and root strings and tones an array
safeParseScale(content) ==
  IF /\ content.kind = "json"
     /\ {"label", "root", "tones"} \subseteq DOMAIN content.value
    THEN content.value
    ELSE NULL

RECURSIVE ParsedNames(_)
\* parsed.tones.map((t) => parseNote(t.note)?.name).filter((name) => !!name)
ParsedNames(tones) ==
  IF tones = <<>> THEN <<>>
  ELSE
    LET front == ParsedNames(SubSeq(tones, 1, Len(tones) - 1))
        n == parseNote(tones[Len(tones)].note)
    IN IF n = NULL THEN front ELSE Append(front, n.name)

RECURSIVE NamesToPitchClasses(_)
\* noteNames.map((n) => parseNote(n)?.pitchClass).filter(pc !== undefined)
NamesToPitchClasses(noteNames) ==
  IF noteNames = <<>> THEN <<>>
  ELSE
    LET front == NamesToPitchClasses(SubSeq(noteNames, 1, Len(noteNames) - 1))
        n == parseNote(noteNames[Len(noteNames)])
    IN IF n = NULL THEN front ELSE Append(front, n.pitchClass)

\* !degreeMap[key]: no entry yet, or an entry that is the empty string
IsFalsyEntry(degreeMap, key) ==
  key \notin DOMAIN degreeMap \/ degreeMap[key] = ""

SetEntry(degreeMap, key, value) ==
  [k \in DOMAIN degreeMap \cup {key} |->
     IF k = key THEN value ELSE degreeMap[k]]

RECURSIVE DegreeLoop(_)
\* for (const t of parsed.tones) { ...; if (!degreeMap[key]) degreeMap[key] = t.degree }
DegreeLoop(tones) ==
  IF tones = <<>> THEN <<>>
  ELSE
    LET front == DegreeLoop(SubSeq(tones, 1, Len(tones) - 1))
        t == tones[Len(tones)]
        n == parseNote(t.note)
    IN IF n = NULL THEN front
       ELSE IF IsFalsyEntry(front, n.pitchClass)
         THEN SetEntry(front, n.pitchClass, t.degree)
       ELSE front

\* the loop, then degreeMap[String(root.pitchClass)] = "1"
buildDegreeMap(tones, root) ==
  SetEntry(DegreeLoop(tones), root.pitchClass, "1")

\* callLlm of the chord route
callLlmChord(apiKey, answer) ==
  IF ~apiKey THEN NULL
  ELSE IF answer.kind = "throws" THEN THROWN
  ELSE IF answer.kind # "ok" THEN NULL
  ELSE IF answer.content.kind = "absent" THEN NULL
  ELSE
    LET parsed == safeParse(answer.content) IN
    IF parsed = NULL THEN NULL
    ELSE
      LET root == parseNote(parsed.root) IN
      IF root = NULL THEN NULL
      ELSE
        LET noteNames == ParsedNames(parsed.tones)
            pcs == NamesToPitchClasses(noteNames)
        IN IF Len(pcs) = 0 THEN NULL
           ELSE [root |-> root,
                 rootName |-> root.name,
                 noteNames |-> noteNames,
                 degreeMap |-> buildDegreeMap(parsed.tones, root),
                 pitchClasses |-> pcs,
                 label |-> root.name \o ChordSuffix,
                 source |-> "llm"]

\* callLlm of the scale route
callLlmScale(apiKey, answer) ==
  IF ~apiKey THEN NULL
  ELSE IF answer.kind = "throws" THEN THROWN
  ELSE IF answer.kind # "ok" THEN NULL
  ELSE IF answer.content.kind = "absent" THEN NULL
  ELSE
    LET parsed == safeParseScale(answer.content) IN
    IF parsed = NULL THEN NULL
    ELSE
      LET root == parseNote(parsed.root) IN
      IF root = NULL THEN NULL
      ELSE
        LET noteNames == ParsedNames(parsed.tones)
            pitchClasses == NamesToPitchClasses(noteNames)
        IN IF Len(pitchClasses) = 0 THEN NULL
           ELSE [label |-> parsed.label,
                 rootName |-> root.name,
                 rootPitchClass |-> root.pitchClass,
                 noteNames |-> noteNames,
                 pitchClasses |-> pitchClasses,
                 degreeMap |-> buildDegreeMap(parsed.tones, root),
                 source |-> "llm"]

(***************************************************************************)
(* notes.ts: MIDI numbers. Every MIDI number of the model is an integer,   *)
(* so Math.round leaves it as it is.                                       *)
(***************************************************************************)
RECURSIVE NaturalToText(_)
\* the decimal digits of a natural number
NaturalToText(n) ==
  LET digit == CHOOSE c \in Digits : DigitValue(c) = n % 10
  IN IF n < 10 THEN <<digit>> ELSE Append(NaturalToText(n \div 10), digit)

\* `${n}` of an integer
NumberToText(n) ==
  IF n < 0 THEN <<"-">> \o NaturalToText(0 - n) ELSE NaturalToText(n)

\* Math.floor(rounded / 12)
FloorDiv12(rounded) == (rounded - (rounded % 12)) \div 12

\* midiToNote with pitch class 0 at MIDI 21, the lowest A of a piano
midiToNote_fromLowestA(midi, preferSharps) ==
  LET octave == FloorDiv12(midi) - 1
      pitchClass == NormalizePc(midi - 21)
  IN [name |-> pitchClassToName(pitchClass, preferSharps),
      pitchClass |-> pitchClass,
      octave |-> <<octave>>]

midiToNote(midi, preferSharps) ==
  LET octave == FloorDiv12(midi) - 1
      pitchClass == NormalizePc(midi)
  IN [name |-> pitchClassToName(pitchClass, preferSharps),
      pitchClass |-> pitchClass,
      octave |-> <<octave>>]

toMidi(pitchClass, octave) == (octave + 1) * 12 + pitchClass

(***************************************************************************)
(* tunings.ts. A StringNote is [label, midi, pitchClass]; a TuningResult   *)
(* is [strings, errors]. An exception that leaves the call is THROWN.      *)
(***************************************************************************)
STANDARD_BASE == <<40, 45, 50, 55, 59, 64>>
FOURTHS_BASE == <<40, 45, 50, 55, 60, 65>>
BASS_4_BASE == <<28, 33, 38, 43>>
BASS_5_BASE == <<28, 33, 38, 43, 48>>

RECURSIVE UnshiftLower(_, _)
\* while (extended.length < stringCount) extended.unshift(extended[0] - 5)
UnshiftLower(extended, stringCount) ==
  IF Len(extended) < stringCount
    THEN UnshiftLower(<<extended[1] - 5>> \o extended, stringCount)
    ELSE extended

expandLowStrings(base, stringCount) ==
  IF stringCount <= Len(base)
    THEN slice(base, Len(base) - stringCount)
    ELSE UnshiftLower(base, stringCount)

\* values.map((midi) => ({label: note.name, midi, pitchClass}))
StringNotesOf(values) ==
  [i \in 1..Len(values) |->
     LET note == midiToNote(values[i], TRUE)
     IN [label |-> note.name, midi |-> values[i],
         pitchClass |-> note.pitchClass]]

presetTuning_guitarBase(preset, stringCount) ==
  LET base == IF preset = "fourths" THEN FOURTHS_BASE ELSE STANDARD_BASE
  IN StringNotesOf(expandLowStrings(base, stringCount))

presetTuning(preset, stringCount) ==
  LET base == IF stringCount = 4 THEN BASS_4_BASE
              ELSE IF stringCount = 5 THEN BASS_5_BASE
              ELSE IF preset = "fourths" THEN FOURTHS_BASE
              ELSE STANDARD_BASE
  IN StringNotesOf(expandLowStrings(base, stringCount))

InvalidNoteMessage_zeroBased(index, value) ==
  <<"S", "t", "r", "i", "n", "g", " ">> \o NumberToText(index)
    \o <<":", " ", "i", "n", "v", "a", "l", "i", "d", " ",
         "n", "o", "t", "e", " ", "\"">>
    \o value \o <<"\"">>

\* `String ${index + 1}: invalid note "${value || ""}"`, index counted from 0
InvalidNoteMessage(index, value) ==
  <<"S", "t", "r", "i", "n", "g", " ">> \o NumberToText(index + 1)
    \o <<":", " ", "i", "n", "v", "a", "l", "i", "d", " ",
         "n", "o", "t", "e", " ", "\"">>
    \o value \o <<"\"">>

DefaultFallbackOctave == 3

RECURSIVE StringsOfFirst(_, _, _)
\* the strings array after forEach has visited the first count inputs
StringsOfFirst(inputs, count, fallbackOctave) ==
  IF count = 0 THEN <<>>
  ELSE
    LET parsed == parseNote(inputs[count]) IN
    IF parsed = NULL THEN StringsOfFirst(inputs, count - 1, fallbackOctave)
    ELSE
      LET octave == IF parsed.octave # <<>> THEN parsed.octave[1]
                    ELSE fallbackOctave
      IN Append(StringsOfFirst(inputs, count - 1, fallbackOctave),
                [label |-> pitchClassToName(parsed.pitchClass, TRUE),
                 pitchClass |-> parsed.pitchClass,
                 midi |-> toMidi(parsed.pitchClass, octave)])

RECURSIVE ErrorsOfFirst(_, _)
\* the errors array after forEach has visited the first count inputs
ErrorsOfFirst(inputs, count) ==
  IF count = 0 THEN <<>>
  ELSE IF parseNote(inputs[count]) = NULL
    THEN Append(ErrorsOfFirst(inputs, count - 1),
                InvalidNoteMessage(count - 1, inputs[count]))
  ELSE ErrorsOfFirst(inputs, count - 1)

parseCustomTuning(inputs, fallbackOctave) ==
  [strings |-> StringsOfFirst(inputs, Len(inputs), fallbackOctave),
   errors |-> ErrorsOfFirst(inputs, Len(inputs))]

PadNote == <<"C", "3">>

\* Array(length).fill(value), for a length that is not negative
ArrayFill(length, value) == [i \in 1..length |-> value]

\* Array(stringCount - customInputs.length) throws a RangeError when the
\* length is negative
buildTuning(preset, stringCount, customInputs) ==
  IF preset = "custom"
    THEN
      IF Len(customInputs) = stringCount
        THEN parseCustomTuning(customInputs, DefaultFallbackOctave)
      ELSE IF stringCount - Len(customInputs) < 0
        THEN THROWN
      ELSE parseCustomTuning(
             customInputs \o ArrayFill(stringCount - Len(customInputs),
                                       PadNote),
             DefaultFallbackOctave)
    ELSE [strings |-> presetTuning(preset, stringCount), errors |-> <<>>]

(***************************************************************************)
(* harmonics.ts. Frets are written in tenths of a fret (fret 3.2 is 32) and *)
(* a binary logarithm in millionths. The logarithm of a product is the sum *)
(* of the logarithms of its factors, so two fractions k/n of equal value   *)
(* predict exactly the same fret, as they do in the source, where k / n is *)
(* the same double for both.                                               *)
(***************************************************************************)
FretUnit == 10
LogScale == 1000000

\* Math.log2(n) for the integers 1..12
Log2Scaled(n) ==
  LET two == LogScale
      three == 1584963
      five == 2321928
      seven == 2807355
      eleven == 3459432
  IN CASE n = 1 -> 0
       [] n = 2 -> two
       [] n = 3 -> three
       [] n = 4 -> 2 * two
       [] n = 5 -> five
       [] n = 6 -> two + three
       [] n = 7 -> seven
       [] n = 8 -> 3 * two
       [] n = 9 -> 2 * three
       [] n = 10 -> two + five
       [] n = 11 -> eleven
       [] n = 12 -> 2 * two + three

Abs(x) == IF x < 0 THEN 0 - x ELSE x

\* Math.round of a scaled value that is not negative
RoundScaled(x) == (x + (LogScale \div 2)) \div LogScale

HARMONIC_FRETS == <<32, 40, 50, 70, 90, 120, 160, 190>>

\* -12 * Math.log2(1 - k / n), which is 12 * (log2(n) - log2(n - k))
fretForFraction(k, n) == 12 * (Log2Scaled(n) - Log2Scaled(n - k))

MaxPartial == 12

\* the fractions k / n the two for loops visit
Fractions == {<<n, k>> \in (2..MaxPartial) \X (1..MaxPartial) : k < n}

\* p is visited before q
VisitedBefore(p, q) == p[1] < q[1] \/ (p[1] = q[1] /\ p[2] < q[2])

\* Math.abs(predicted - fret) for the fraction p
FretError(fret, p) ==
  Abs(fretForFraction(p[2], p[1]) - fret * (LogScale \div FretUnit))

\* nearestPartial where a fraction of equal error replaces the best one
nearestPartial_lastWins(fret) ==
  LET best == CHOOSE p \in Fractions :
                \A q \in Fractions \ {p} :
                  \/ FretError(fret, p) < FretError(fret, q)
                  \/ /\ FretError(fret, p) = FretError(fret, q)
                     /\ VisitedBefore(q, p)
  IN [fret |-> fret, partial |-> best[1],
      semitoneShift |-> RoundScaled(12 * Log2Scaled(best[1]))]

\* bestError starts at +Infinity, so the first fraction visited replaces the
\* initial best; after it `error < bestError` replaces the best only by a
\* fraction of strictly smaller error: the loops end with the fraction of
\* least error that was visited first
nearestPartial(fret) ==
  LET best == CHOOSE p \in Fractions :
                \A q \in Fractions \ {p} :
                  \/ FretError(fret, p) < FretError(fret, q)
                  \/ /\ FretError(fret, p) = FretError(fret, q)
                     /\ VisitedBefore(p, q)
  IN [fret |-> fret, partial |-> best[1],
      semitoneShift |-> RoundScaled(12 * Log2Scaled(best[1]))]

\* the table built when the module is loaded
HARMONIC_POINTS ==
  [i \in 1..Len(HARMONIC_FRETS) |-> nearestPartial(HARMONIC_FRETS[i])]

\* HARMONIC_POINTS.map((point) => ...): the array is read as it is when the
\* call is made
computeHarmonicsForString(openMidi, preferSharps) ==
  [i \in 1..Len(harmonicPoints) |->
     LET point == harmonicPoints[i]
         note == midiToNote(openMidi + point.semitoneShift, preferSharps)
     IN [fret |-> point.fret,
         partial |-> point.partial,
         label |-> note.name \o NumberToText(note.octave[1]),
         pitchClass |-> note.pitchClass,
         octave |-> note.octave]]

(***************************************************************************)
(* fretboard.ts. An absent key or chord is NULL; a key is read through its *)
(* fields root and scale, a chord through its field pitchClasses.          *)
(***************************************************************************)
\* chord.pitchClasses.includes(pc)
Includes(values, v) == \E i \in 1..Len(values) : values[i] = v

\* buildFretboardHarmonics with the root left out of the key's members
buildFretboardHarmonics_rootAlone(tuning, key, chord) ==
  LET perString == Len(harmonicPoints) IN
  [j \in 1..(Len(tuning) * perString) |->
     LET stringIndex == (j - 1) \div perString
         stringNote == tuning[stringIndex + 1]
         h == computeHarmonicsForString(stringNote.midi, TRUE)[
                ((j - 1) % perString) + 1]
     IN [fret |-> h.fret, partial |-> h.partial, label |-> h.label,
         pitchClass |-> h.pitchClass, octave |-> h.octave,
         stringIndex |-> stringIndex,
         isInKey |-> IF key # NULL
                       THEN isPitchClassInKey(h.pitchClass, key)
                              /\ h.pitchClass # key.root
                       ELSE FALSE,
         isRoot |-> IF key # NULL THEN h.pitchClass = key.root ELSE FALSE,
         inChord |-> IF chord # NULL
                       THEN Includes(chord.pitchClasses, h.pitchClass)
                       ELSE FALSE]]

\* tuning.flatMap((stringNote, stringIndex) => harmonics.map(...)): every
\* string gives as many markers as HARMONIC_POINTS has points, so marker j
\* of the result is a marker of string (j - 1) div that number
buildFretboardHarmonics(tuning, key, chord) ==
  LET perString == Len(harmonicPoints) IN
  [j \in 1..(Len(tuning) * perString) |->
     LET stringIndex == (j - 1) \div perString
         stringNote == tuning[stringIndex + 1]
         h == computeHarmonicsForString(stringNote.midi, TRUE)[
                ((j - 1) % perString) + 1]
     IN [fret |-> h.fret, partial |-> h.partial, label |-> h.label,
         pitchClass |-> h.pitchClass, octave |-> h.octave,
         stringIndex |-> stringIndex,
         isInKey |-> IF key # NULL
                       THEN isPitchClassInKey(h.pitchClass, key)
                       ELSE FALSE,
         isRoot |-> IF key # NULL THEN h.pitchClass = key.root ELSE FALSE,
         inChord |-> IF chord # NULL
                       THEN Includes(chord.pitchClasses, h.pitchClass)
                       ELSE FALSE]]

\* The continuous view: for each string, for fret 0..fretCount, the pitch
\* open pitch + fret converted to a note, with the same three flags.
buildFretboardNotes(tuning, key, chord, fretCount) ==
  LET perString == fretCount + 1 IN
  [j \in 1..(Len(tuning) * perString) |->
     LET stringIndex == (j - 1) \div perString
         stringNote == tuning[stringIndex + 1]
         fret == (j - 1) % perString
         note == midiToNote(stringNote.midi + fret, TRUE)
     IN [fret |-> fret * FretUnit,
         label |-> note.name,
         pitchClass |-> note.pitchClass,
         octave |-> note.octave,
         stringIndex |-> stringIndex,
         isInKey |-> IF key # NULL
                       THEN isPitchClassInKey(note.pitchClass, key)
                       ELSE FALSE,
         isRoot |-> IF key # NULL THEN note.pitchClass = key.root ELSE FALSE,
         inChord |-> IF chord # NULL
                       THEN Includes(chord.pitchClasses, note.pitchClass)
                       ELSE FALSE]]

PageFretCount == 24

\* page.tsx, the markers memo: the key is built from the scale the scale
\* route answered with, the chord is the chord the chord route answered with
markers(topMode, activeTab, tuning, scaleData, chordData) ==
  LET keySig == IF activeTab = "scale" /\ scaleData # NULL
                  THEN [root |-> scaleData.rootPitchClass,
                        scale |-> scaleData.pitchClasses]
                  ELSE NULL
      chordSig == IF activeTab = "chord" THEN chordData ELSE NULL
  IN IF topMode = "notes"
       THEN buildFretboardNotes(tuning, keySig, chordSig, PageFretCount)
       ELSE buildFretboardHarmonics(tuning, keySig, chordSig)

\* the table of chordDegreeForPitchClass, read with the interval 0..11
ChordDegreeTable ==
  <<"1", "b2", "2", "b3", "3", "4", "b5", "5", "#5", "6", "b7", "7">>

\* a % n of JavaScript: the remainder has the sign of a
JsRemainder(a, n) == IF a < 0 THEN 0 - ((0 - a) % n) ELSE a % n

\* chordDegreeForPitchClass with the interval (pc - rootPc) % 12
chordDegreeForPitchClass_plainRemainder(chordSig, pc) ==
  IF chordSig = NULL THEN <<>>
  ELSE IF "degreeMap" \in DOMAIN chordSig /\ pc \in DOMAIN chordSig.degreeMap
    THEN <<chordSig.degreeMap[pc]>>
  ELSE
    LET rootPc == chordSig.root.pitchClass
        interval == JsRemainder(pc - rootPc, 12)
    IN IF interval \in 0..11 THEN <<ChordDegreeTable[interval + 1]>> ELSE <<>>

\* page.tsx, Fretboard: the degree label of a pitch class in the chord. The
\* result string | null is <<label>> or <<>>, as labels are plain strings.
chordDegreeForPitchClass(chordSig, pc) ==
  IF chordSig = NULL THEN <<>>
  ELSE IF "degreeMap" \in DOMAIN chordSig /\ pc \in DOMAIN chordSig.degreeMap
    THEN <<chordSig.degreeMap[pc]>>
  ELSE
    LET rootPc == chordSig.root.pitchClass
        interval == JsRemainder(JsRemainder(pc - rootPc, 12) + 12, 12)
    IN IF interval \in 0..11 THEN <<ChordDegreeTable[interval + 1]>> ELSE <<>>

(***************************************************************************)
(* supabase/cache.ts: the cache key. A SHA-256 digest is modelled as a     *)
(* value that stands for the digested text, one digest for each text.      *)
(***************************************************************************)
RECURSIVE CollapseFirst(_, _)
\* .replace(/\s+/g, " ") of the first count characters of s: each run of
\* whitespace becomes one blank
CollapseFirst(s, count) ==
  IF count = 0 THEN <<>>
  ELSE IF s[count] \notin WhiteSpace
    THEN Append(CollapseFirst(s, count - 1), s[count])
  ELSE IF count > 1 /\ s[count - 1] \in WhiteSpace
    THEN CollapseFirst(s, count - 1)
  ELSE Append(CollapseFirst(s, count - 1), " ")

\* normalizePromptInput without the replace
normalizePromptInput_trimOnly(input) == trim(input)

normalizePromptInput(input) == CollapseFirst(trim(input), Len(trim(input)))

sha256(input) == [sha256 |-> input]

ChordSchemaVersion == <<"c", "h", "o", "r", "d", ":", "v", "2">>
ScaleSchemaVersion == <<"s", "c", "a", "l", "e", ":", "v", "2">>

\* `${schemaVersion}:${sha256(raw)}`, as the pair of its two parts
makeCachePrompt(kind, model, input) ==
  LET normalized == normalizePromptInput(input)
      schemaVersion == IF kind = "chord" THEN ChordSchemaVersion
                       ELSE ScaleSchemaVersion
      raw == schemaVersion \o <<"|", "m", "o", "d", "e", "l", "=">> \o model
               \o <<"|", "i", "n", "p", "u", "t", "=">> \o normalized
  IN [schemaVersion |-> schemaVersion, digest |-> sha256(raw)]

(***************************************************************************)
(* supabase/cache.ts and the POST handlers: the store. The table cache     *)
(* maps a prompt to a response text; JSON.stringify of a value is a text   *)
(* that JSON.parse gives the value back from, and a text that is no JSON   *)
(* makes JSON.parse throw. getSupabaseConfig reads env.                    *)
(***************************************************************************)
OPENAI_MODEL == <<"g", "p", "t", "-", "4", "o", "-", "m", "i", "n", "i">>

JSONStringify(value) == [json |-> value]

JSONParse(text) == IF "json" \in DOMAIN text THEN text.json ELSE THROWN

\* a response text that is no JSON, and a JSON value that is no object
GarbageText == [garbage |-> TRUE]
JsonString == [jsonString |-> "x"]

EmptyCache == <<>>

\* cacheGet: storeError tells whether the select fails
cacheGet(prompt, storeError) ==
  IF ~env.supabase THEN NULL
  ELSE IF storeError \/ prompt \notin DOMAIN cache THEN NULL
  ELSE
    LET parsed == JSONParse(cache[prompt])
    IN IF parsed = THROWN THEN NULL ELSE parsed

\* the result of cacheSet: upsertError tells whether the upsert fails
cacheSet(upsertError) ==
  IF ~env.supabase
    THEN [ok |-> FALSE, error |-> "Supabase env not configured"]
  ELSE IF upsertError THEN [ok |-> FALSE, error |-> "upsert failed"]
  ELSE [ok |-> TRUE]

\* an insert that leaves a row of the same prompt as it is
Upsert_keepsExisting(table, prompt, response) ==
  [k \in DOMAIN table \cup {prompt} |->
     IF k \in DOMAIN table THEN table[k] ELSE response]

\* .upsert({prompt, response}, {onConflict: "prompt"})
Upsert(table, prompt, response) ==
  [k \in DOMAIN table \cup {prompt} |->
     IF k = prompt THEN response ELSE table[k]]

\* the test of the cached value where every value that is not null passes
IsCachedObject_anyValue(cached) == cached # NULL

\* cached && typeof cached === "object"
IsCachedObject(cached) == cached # NULL /\ cached # JsonString

\* the test of the body where the empty string passes
IsRejectedBody_acceptsEmpty(body) == body.kind # "text"

\* !chord || typeof chord !== "string"
IsRejectedBody(body) == body.kind # "text" \/ body.text = <<>>

NoHeaders == <<>>

RequiredMessage(kind) ==
  IF kind = "chord" THEN "Chord is required" ELSE "Scale is required"

UnableMessage(kind) ==
  IF kind = "chord" THEN "Unable to parse chord" ELSE "Unable to parse scale"

HitResponse(cached, cachePrompt) ==
  [status |-> 200, body |-> cached,
   headers |-> ("x-cache" :> "HIT") @@ ("x-cache-key" :> cachePrompt)]

\* the response after cacheSet where a failed write answers with an error
WriteResponse_failsOnError(payload, cachePrompt, write) ==
  IF ~write.ok
    THEN [status |-> 500, body |-> [error |-> write.error],
          headers |-> NoHeaders]
    ELSE [status |-> 200, body |-> payload,
          headers |-> ("x-cache" :> "MISS") @@ ("x-cache-key" :> cachePrompt)
                        @@ ("x-cache-write" :> "OK")]

\* the response after cacheSet
WriteResponse(payload, cachePrompt, write) ==
  IF ~write.ok
    THEN [status |-> 200, body |-> payload,
          headers |-> ("x-cache" :> "MISS") @@ ("x-cache-key" :> cachePrompt)
                        @@ ("x-cache-write" :> "ERR")
                        @@ ("x-cache-write-error" :> write.error)]
    ELSE [status |-> 200, body |-> payload,
          headers |-> ("x-cache" :> "MISS") @@ ("x-cache-key" :> cachePrompt)
                        @@ ("x-cache-write" :> "OK")]

\* a request before its POST handler has started
IdleRequest ==
  [pc |-> "idle", kind |-> "", body |-> NULL, cachePrompt |-> NULL,
   llm |-> NULL, reads |-> 0, llmCalls |-> 0, writes |-> 0,
   write |-> NULL, response |-> NULL]

Requests == 1..MaxRequests

(***************************************************************************)
(* Inputs                                                                  *)
(***************************************************************************)
RECURSIVE TextsUpTo(_, _)
\* every text of at most n characters over the alphabet
TextsUpTo(alphabet, n) ==
  IF n = 0 THEN {<<>>}
  ELSE LET shorter == TextsUpTo(alphabet, n - 1)
       IN shorter \cup {Append(t, c) : t \in shorter, c \in alphabet}

\* an invalid letter, letters in both cases (b is a letter and an accidental),
\* the accidentals, a sign, a digit, a blank
NoteAlphabet == {"C", "b", "E", "H", "#", "-", "3", " "}

OctaveTexts == {<<>>, <<"3">>, <<"-", "1">>, <<"1", "0">>}

\* letter, optional accidental, optional octave: every valid note token
NoteTokens ==
  {<<l>> \o a \o o :
     l \in NoteLetters, a \in {<<>>, <<"#">>, <<"b">>}, o \in OctaveTexts}

NoteInputs == TextsUpTo(NoteAlphabet, MaxNoteLen) \cup NoteTokens

\* every root token [A-G][#b]?, and some in lower case
RootSymbols ==
  {<<l>> \o a : l \in UpperLetters, a \in {<<>>, <<"#">>, <<"b">>}}
    \cup {<<"c">>, <<"b", "b">>, <<"f", "#">>}

\* texts after the root: the quality tokens of the table, sus without its
\* number, and texts that start with no quality token
QualityTexts ==
  {QualityAlternatives[i] : i \in 1..Len(QualityAlternatives)}
    \cup {<<>>, <<"s", "u", "s", "2">>, <<"s", "u", "s", "4">>,
          <<"s", "u", "s">>, <<"x">>, <<"a", "d", "d">>, <<"h">>}

ExtensionTexts ==
  {<<>>, <<"7">>, <<"m", "a", "j", "7">>, <<"M", "7">>, <<"Delta", "7">>,
   <<"U+00CE", "U+201D", "7">>, <<"7", "b", "5">>, <<"7", "#", "5">>, <<"7", "+", "5">>,
   <<"d", "i", "m", "5">>, <<"9">>, <<"b", "9">>, <<"7", "b", "9">>,
   <<"1", "1">>, <<"1", "3">>, <<"b", "1", "3">>, <<"6">>, <<" ", "7">>}

ChordInputs ==
  {r \o q \o e : r \in RootSymbols, q \in QualityTexts, e \in ExtensionTexts}
    \cup {<<>>, <<" ">>, <<"H">>, <<"7">>, <<"H", "m", "7">>, <<"m", "a", "j">>,
          <<" ", "C", "m", "a", "j", "7", " ">>, <<"C", " ", "m", "7">>,
          <<"#", "C">>,
          <<"C", "\n", "7">>, <<"C", "#", "\n">>, <<"\n", "C", "m", "\n", "7">>,
          <<"C", "7", "\n", " ">>, <<"\n">>,
          <<"C", "7", "d", "i", "m", "5">>, <<"C", "7", "b", "5", "#", "5">>,
          <<"C", "x", "+", "5">>, <<"C", "x", "9">>}

\* note names of an LLM answer: two spellings of one pitch class (E, Fb) and
\* a name parseNote rejects
LlmNoteTexts == {<<"C">>, <<"E">>, <<"F", "b">>, <<"H">>}
LlmRootTexts == {<<"C">>, <<"E">>, <<"H">>}
DegreeLabels == {"", "1", "3", "b3"}
LlmLabels == {<<"E", " ", "l", "y", "d", "i", "a", "n">>}

LlmTones == [note : LlmNoteTexts, degree : DegreeLabels]

RECURSIVE ToneListsUpTo(_)
ToneListsUpTo(n) ==
  IF n = 0 THEN {<<>>}
  ELSE LET shorter == ToneListsUpTo(n - 1)
       IN shorter \cup {Append(l, t) : l \in shorter, t \in LlmTones}

\* contents of the schema with notes: a chord answer and a scale answer
NotesContents ==
  {[kind |-> "json",
    value |-> [root |-> <<"C">>, notes |-> << <<"C">>, <<"E">> >>]]}
    \cup {[kind |-> "json",
           value |-> [label |-> l, root |-> <<"E">>,
                      notes |-> << <<"E">>, <<"F", "b">> >>]] :
            l \in LlmLabels}

LlmContents ==
  {[kind |-> "absent"], [kind |-> "malformed"]}
    \cup {[kind |-> "json",
           value |-> [label |-> l, root |-> r, tones |-> t]] :
            l \in LlmLabels, r \in LlmRootTexts, t \in ToneListsUpTo(MaxTones)}
    \cup NotesContents

LlmAnswers ==
  {[kind |-> "throws"], [kind |-> "notOk"]}
    \cup {[kind |-> "ok", content |-> c] : c \in LlmContents}

Presets == {"standard", "fourths", "custom"}

\* custom tuning inputs: notes with and without an octave, in both cases,
\* with blanks around, an empty input and a text that is no note
CustomTexts ==
  {<<"E", "2">>, <<"a">>, <<" ", "B", "b", "-", "1">>, <<>>, <<"H", "3">>}

RECURSIVE CustomListsUpTo(_)
CustomListsUpTo(n) ==
  IF n = 0 THEN {<<>>}
  ELSE LET shorter == CustomListsUpTo(n - 1)
       IN shorter \cup {Append(l, t) : l \in shorter, t \in CustomTexts}

CustomInputLists == CustomListsUpTo(MaxCustomInputs)

OpenPitches == (0 - 13)..MaxOpenMidi

\* tunings of no, one, two and six strings
MarkerTunings ==
  {<<>>, presetTuning("fourths", 1), presetTuning("standard", 2),
   presetTuning("standard", 6)}

MarkerChords ==
  {NULL, parseChordLocally(<<"C">>), parseChordLocally(<<"E", "m", "7">>),
   parseChordLocally(<<"F", "#", "d", "i", "m">>)}

FretCounts == (0..MaxFretCount) \cup {PageFretCount}

\* what the page holds as scale.data and chord.data: null, or the body of a
\* 200 response of the route to an LLM answer
PlainToneLists ==
  {l \in ToneListsUpTo(MaxTones) : \A i \in 1..Len(l) : l[i].degree = "1"}

PageAnswers ==
  {[kind |-> "ok",
    content |-> [kind |-> "json",
                 value |-> [label |-> l, root |-> r, tones |-> t]]] :
     l \in LlmLabels, r \in LlmRootTexts, t \in PlainToneLists}

\* the body of a 200 response is what callLlm returned
PageScaleDatas ==
  {NULL} \cup {callLlmScale(TRUE, a) : a \in PageAnswers}

PageChordDatas ==
  {NULL} \cup
    {callLlmChord(TRUE, a) :
       a \in {b \in PageAnswers : Len(b.content.value.tones) <= 1}}

PageTunings == {presetTuning("fourths", 1), presetTuning("standard", 6)}

\* chords the fretboard is drawn with: none, chords without a degreeMap, and
\* the chords the route answers with, whose degreeMap holds some labels
DegreeChords ==
  MarkerChords
    \cup ({callLlmChord(TRUE, a) : a \in LlmAnswers} \ {NULL, THROWN})

\* a letter, a blank and a tab
PromptAlphabet == {"C", " ", "\t"}

PromptInputs == TextsUpTo(PromptAlphabet, MaxPromptLen)

\* the default of OPENAI_MODEL and another model
ModelNames ==
  {<<"g", "p", "t", "-", "4", "o", "-", "m", "i", "n", "i">>,
   <<"g", "p", "t", "-", "4", "o">>}

RouteKinds == {"chord", "scale"}

(***************************************************************************)
(* Specification: each action is one call of a library function or one     *)
(* resolution by a route, on an input drawn from the sets above.           *)
(***************************************************************************)
(***************************************************************************)
(* app/page.tsx: the state of Home. The fields of page named in            *)
(* StateFields are the useState values of the last render, which are the   *)
(* values the handlers of that render read. A setter does not change them: *)
(* it queues an update, and page.queued holds the values after the updates *)
(* queued so far, in the order of the calls (a function handed to a setter *)
(* is applied to the value the updates before it left). The next render    *)
(* takes the queued values, and the effects whose dependencies the render  *)
(* changed run after it. fetches is the list of the fetches started by     *)
(* analyzeChord and analyzeScale in the order of their start: each is      *)
(* pending until its response arrives, and then holds the outcome. The     *)
(* message?: string of UiChord and UiScale is <<>> or <<message>>.         *)
(***************************************************************************)
HISTORY_LIMIT == 12

\* recentChords.slice(0, 8): the recent items that are rendered
RecentShown == 8

NoneState == [data |-> NULL, source |-> "none", message |-> <<>>]

LoadingState == [data |-> NULL, source |-> "loading", message |-> <<>>]

SuccessState(data) == [data |-> data, source |-> "success", message |-> <<>>]

ErrorState(message) ==
  [data |-> NULL, source |-> "error", message |-> <<message>>]

\* a JSON array as a value: JSON.parse gives it and Array.isArray tells it
\* from the other values
ArrayValue(items) == [array |-> items]

IsArray(value) == "array" \in DOMAIN value

\* the useState values of Home that the model follows
StateFields ==
  {"activeTab", "scaleText", "scale", "recentScales",
   "chordText", "chord", "recentChords"}

\* the useState defaults
InitialState ==
  [activeTab |-> "scale",
   scaleText |-> <<>>, scale |-> NoneState, recentScales |-> <<>>,
   chordText |-> <<>>, chord |-> NoneState, recentChords |-> <<>>]

NoHistory == [chords |-> FALSE, scales |-> FALSE]

\* Home when its first render is committed and the effects of the mount
\* have not run: the useState defaults, no update queued, and the two
\* history items of localStorage, each a text or NULL when there is none.
\* scheduled tells whether a render is due, and for which updates: those of
\* an event handler ("event") or only those of effects and of the parts of
\* analyzeChord and analyzeScale after their await ("render"). changed
\* tells the histories a queued update has set, effects the histories whose
\* persisting effect is due.
InitialPage ==
  [activeTab |-> "scale",
   scaleText |-> <<>>, scale |-> NoneState, recentScales |-> <<>>,
   chordText |-> <<>>, chord |-> NoneState, recentChords |-> <<>>,
   queued |-> InitialState,
   scheduled |-> "none",
   changed |-> NoHistory,
   effects |-> NoHistory,
   fetches |-> <<>>,
   mounted |-> FALSE,
   storage |-> [chords |-> NULL, scales |-> NULL]]

\* the calls of setters by one run of a handler: updates gives the new
\* value of every state the run sets. The values are queued, the rendered
\* ones stay, and a render is due. React renders the updates of an event
\* handler before it runs the next event handler.
SetState(state, by, updates) ==
  [state EXCEPT
     !.queued = [f \in StateFields |->
                   IF f \in DOMAIN updates THEN updates[f] ELSE @[f]],
     !.scheduled = IF by = "event" \/ @ = "event" THEN "event" ELSE "render",
     !.changed = [chords |-> @.chords \/ "recentChords" \in DOMAIN updates,
                  scales |-> @.scales \/ "recentScales" \in DOMAIN updates]]

\* the mount effect sets the history from an item of localStorage:
\* if (raw) { parsed = JSON.parse(raw);
\* if (Array.isArray(parsed)) setRecent(parsed) } inside try / catch
IsLoaded(raw) ==
  IF raw = NULL THEN FALSE
  ELSE IF JSONParse(raw) = THROWN THEN FALSE
  ELSE IsArray(JSONParse(raw))

\* the history the mount effect sets from an item for which IsLoaded holds
LoadedHistory(raw) == JSONParse(raw).array

\* the setters the mount effect calls
LoadUpdates(storage) ==
  IF IsLoaded(storage.chords) /\ IsLoaded(storage.scales)
    THEN [recentChords |-> LoadedHistory(storage.chords),
          recentScales |-> LoadedHistory(storage.scales)]
  ELSE IF IsLoaded(storage.chords)
    THEN [recentChords |-> LoadedHistory(storage.chords)]
  ELSE IF IsLoaded(storage.scales)
    THEN [recentScales |-> LoadedHistory(storage.scales)]
  ELSE <<>>

\* the effects that persist the histories, each run after a render that
\* changed its history, on the values of that render:
\* localStorage.setItem(KEY, JSON.stringify(recent))
Persisted(state, due) ==
  [state EXCEPT
     !.storage =
       [chords |-> IF due.chords
                     THEN JSONStringify(ArrayValue(state.recentChords))
                     ELSE @.chords,
        scales |-> IF due.scales
                     THEN JSONStringify(ArrayValue(state.recentScales))
                     ELSE @.scales]]

\* [{query, data, createdAt: now}, ...prev.filter((x) => x.query !== query)]
\*   .slice(0, HISTORY_LIMIT)
upsertChordHistory(prev, query, data, now) ==
  LET filtered == SelectSeq(prev, LAMBDA x : x.query # query)
      list == <<[query |-> query, data |-> data, createdAt |-> now]>>
                \o filtered
  IN SubSeq(list, 1, IF Len(list) < HISTORY_LIMIT THEN Len(list)
                     ELSE HISTORY_LIMIT)

upsertScaleHistory(prev, query, data, now) ==
  LET filtered == SelectSeq(prev, LAMBDA x : x.query # query)
      list == <<[query |-> query, data |-> data, createdAt |-> now]>>
                \o filtered
  IN SubSeq(list, 1, IF Len(list) < HISTORY_LIMIT THEN Len(list)
                     ELSE HISTORY_LIMIT)

\* recentChords.find((x) => x.query === query)?.data ?? null
getCachedChord(recent, query) ==
  IF \E i \in 1..Len(recent) : recent[i].query = query
    THEN recent[CHOOSE i \in 1..Len(recent) :
                  /\ recent[i].query = query
                  /\ \A j \in 1..(i - 1) : recent[j].query # query].data
    ELSE NULL

getCachedScale(recent, query) ==
  IF \E i \in 1..Len(recent) : recent[i].query = query
    THEN recent[CHOOSE i \in 1..Len(recent) :
                  /\ recent[i].query = query
                  /\ \A j \in 1..(i - 1) : recent[j].query # query].data
    ELSE NULL

\* Date.now() when a response is handled: the number of responses so far
Now ==
  Cardinality({i \in 1..Len(page.fetches) : page.fetches[i].pc # "pending"})

Init ==
  /\ op = "init"
  /\ arg = <<>>
  /\ ret = NULL
  /\ harmonicPoints = HARMONIC_POINTS
  /\ allKeys = ALL_KEYS
  /\ env = [supabase |-> TRUE, apiKey |-> TRUE]
  /\ cache = EmptyCache
  /\ reqs = [r \in Requests |-> IdleRequest]
  /\ page = InitialPage

ParseNoteCall ==
  /\ op = "init"
  /\ \E input \in NoteInputs :
       /\ op' = "parseNote"
       /\ arg' = input
       /\ ret' = parseNote(input)
  /\ UNCHANGED <<tables, routeState, page>>

ParseChordLocallyCall ==
  /\ op = "init"
  /\ \E input \in ChordInputs :
       /\ op' = "parseChordLocally"
       /\ arg' = input
       /\ ret' = parseChordLocally(input)
  /\ UNCHANGED <<tables, routeState, page>>

KeySetFromRootCall ==
  /\ op = "init"
  /\ \E root \in PitchClass, mode \in Mode :
       /\ op' = "keySetFromRoot"
       /\ arg' = [root |-> root, mode |-> mode]
       /\ ret' = keySetFromRoot(root, mode)
  /\ UNCHANGED <<tables, routeState, page>>

\* a read of one entry of the table built when the module is loaded
AllKeysRead ==
  /\ op = "init"
  /\ \E index \in 0..(Len(allKeys) - 1) :
       /\ op' = "ALL_KEYS"
       /\ arg' = index
       /\ ret' = allKeys[index + 1]
  /\ UNCHANGED <<tables, routeState, page>>

PresetTuningCall ==
  /\ op = "init"
  /\ \E preset \in Presets, stringCount \in 1..MaxStringCount :
       /\ op' = "presetTuning"
       /\ arg' = [preset |-> preset, stringCount |-> stringCount]
       /\ ret' = presetTuning(preset, stringCount)
  /\ UNCHANGED <<tables, routeState, page>>

ParseCustomTuningCall ==
  /\ op = "init"
  /\ \E inputs \in CustomInputLists :
       /\ op' = "parseCustomTuning"
       /\ arg' = inputs
       /\ ret' = parseCustomTuning(inputs, DefaultFallbackOctave)
  /\ UNCHANGED <<tables, routeState, page>>

\* customInputs matter to the custom preset only
BuildTuningCall ==
  /\ op = "init"
  /\ \E preset \in Presets, stringCount \in 0..MaxStringCount :
       \E customInputs \in
            IF preset = "custom" THEN CustomInputLists ELSE {<<>>} :
         /\ op' = "buildTuning"
         /\ arg' = [preset |-> preset, stringCount |-> stringCount,
                    customInputs |-> customInputs]
         /\ ret' = buildTuning(preset, stringCount, customInputs)
  /\ UNCHANGED <<tables, routeState, page>>

ComputeHarmonicsCall ==
  /\ op = "init"
  /\ \E openMidi \in OpenPitches :
       /\ op' = "computeHarmonicsForString"
       /\ arg' = openMidi
       /\ ret' = computeHarmonicsForString(openMidi, TRUE)
  /\ UNCHANGED <<tables, routeState, page>>

\* a key handed to the generator by a caller of the library is absent or
\* one of the 24 keys of ALL_KEYS
BuildFretboardHarmonicsCall ==
  /\ op = "init"
  /\ \E tuning \in MarkerTunings, chord \in MarkerChords :
       \E key \in {NULL} \cup Range(allKeys) :
         /\ op' = "buildFretboardHarmonics"
         /\ arg' = [tuning |-> tuning, key |-> key, chord |-> chord]
         /\ ret' = buildFretboardHarmonics(tuning, key, chord)
  /\ UNCHANGED <<tables, routeState, page>>

BuildFretboardNotesCall ==
  /\ op = "init"
  /\ \E tuning \in MarkerTunings, chord \in MarkerChords :
       \E key \in {NULL} \cup Range(allKeys), fretCount \in FretCounts :
         /\ op' = "buildFretboardNotes"
         /\ arg' = [tuning |-> tuning, key |-> key, chord |-> chord,
                    fretCount |-> fretCount]
         /\ ret' = buildFretboardNotes(tuning, key, chord, fretCount)
  /\ UNCHANGED <<tables, routeState, page>>

\* the page computes its markers from the tuning and from the data the
\* routes answered with
PageMarkers ==
  /\ op = "init"
  /\ \E topMode \in {"notes", "harmonics"}, activeTab \in {"chord", "scale"} :
       \E tuning \in PageTunings, scaleData \in PageScaleDatas,
          chordData \in PageChordDatas :
         /\ op' = "markers"
         /\ arg' = [topMode |-> topMode, activeTab |-> activeTab,
                    tuning |-> tuning, scaleData |-> scaleData,
                    chordData |-> chordData]
         /\ ret' = markers(topMode, activeTab, tuning, scaleData, chordData)
  /\ UNCHANGED <<tables, routeState, page>>

ChordDegreeCall ==
  /\ op = "init"
  /\ \E chordSig \in DegreeChords, pc \in PitchClass :
       /\ op' = "chordDegreeForPitchClass"
       /\ arg' = [chord |-> chordSig, pc |-> pc]
       /\ ret' = chordDegreeForPitchClass(chordSig, pc)
  /\ UNCHANGED <<tables, routeState, page>>

MakeCachePromptCall ==
  /\ op = "init"
  /\ \E kind \in RouteKinds, model \in ModelNames, input \in PromptInputs :
       /\ op' = "makeCachePrompt"
       /\ arg' = [kind |-> kind, model |-> model, input |-> input]
       /\ ret' = makeCachePrompt(kind, model, input)
  /\ UNCHANGED <<tables, routeState, page>>

Next ==
  \/ ParseNoteCall
  \/ ParseChordLocallyCall
  \/ KeySetFromRootCall
  \/ AllKeysRead
  \/ PresetTuningCall
  \/ ParseCustomTuningCall
  \/ BuildTuningCall
  \/ ComputeHarmonicsCall
  \/ BuildFretboardHarmonicsCall
  \/ BuildFretboardNotesCall
  \/ PageMarkers
  \/ ChordDegreeCall
  \/ MakeCachePromptCall

Spec == Init /\ [][Next]_vars

(***************************************************************************)
(* Specification of the routes: each request runs its POST handler from    *)
(* one await to the next, and the handlers of different requests           *)
(* interleave at the awaits.                                               *)
(***************************************************************************)
RequestBodies ==
  {[kind |-> "missing"], [kind |-> "notString"],
   [kind |-> "text", text |-> <<>>],
   [kind |-> "text", text |-> <<"C">>],
   [kind |-> "text", text |-> <<" ", "C", " ">>]}

OneTone(note) == <<[note |-> note, degree |-> "1"]>>

\* the contents of the LLM that hold a tone list: the tone C under the root
\* C and under a root parseNote rejects; under the root C a name parseNote
\* rejects after one it takes; under the root E the tone C twice, first with
\* an empty label
RouteToneContents ==
  {[root |-> <<"C">>, tones |-> OneTone(<<"C">>)],
   [root |-> <<"H">>, tones |-> OneTone(<<"C">>)],
   [root |-> <<"C">>,
    tones |-> <<[note |-> <<"C">>, degree |-> "1"],
                [note |-> <<"H">>, degree |-> "3"]>>],
   [root |-> <<"E">>,
    tones |-> <<[note |-> <<"C">>, degree |-> ""],
                [note |-> <<"C">>, degree |-> "3"]>>]}

\* answers of the LLM: failures, answers with a tone list, and contents of
\* the schema with notes
RouteLlmAnswers ==
  {[kind |-> "throws"], [kind |-> "notOk"],
   [kind |-> "ok", content |-> [kind |-> "absent"]],
   [kind |-> "ok", content |-> [kind |-> "malformed"]]}
    \cup {[kind |-> "ok",
           content |-> [kind |-> "json",
                        value |-> [label |-> l, root |-> c.root,
                                   tones |-> c.tones]]] :
            l \in LlmLabels, c \in RouteToneContents}
    \cup {[kind |-> "ok", content |-> c] : c \in NotesContents}

RouteAnswers == IF env.apiKey THEN RouteLlmAnswers ELSE {[kind |-> "notFetched"]}

\* a result the route stored in an earlier run
StoredResult(kind) ==
  LET answer == [kind |-> "ok",
                 content |-> [kind |-> "json",
                              value |-> [label |-> <<"C">>, root |-> <<"C">>,
                                         tones |-> OneTone(<<"E">>)]]]
  IN JSONStringify(IF kind = "chord" THEN callLlmChord(TRUE, answer)
                   ELSE callLlmScale(TRUE, answer))

\* the table before the first request: empty, or one row for the prompt of
\* "C" that holds a stored result, a text that is no JSON, or a JSON string;
\* without the configuration no client is created and the table is never
\* reached, so it is taken as empty
InitialCaches ==
  {EmptyCache}
    \cup {makeCachePrompt(kind, OPENAI_MODEL, <<"C">>) :> StoredResult(kind) :
            kind \in RouteKinds}
    \cup {makeCachePrompt("chord", OPENAI_MODEL, <<"C">>) :> text :
            text \in {GarbageText, JSONStringify(JsonString)}}

InitRoute ==
  /\ op = "init"
  /\ arg = <<>>
  /\ ret = NULL
  /\ harmonicPoints = HARMONIC_POINTS
  /\ allKeys = ALL_KEYS
  /\ env \in [supabase : BOOLEAN, apiKey : BOOLEAN]
  /\ cache \in IF env.supabase THEN InitialCaches ELSE {EmptyCache}
  /\ reqs = [r \in Requests |-> IdleRequest]
  /\ page = InitialPage

\* POST up to its first await of the store: the body is read and tested,
\* then the input is normalized and the prompt computed
Receive ==
  \E r \in Requests, kind \in RouteKinds, body \in RequestBodies :
    /\ reqs[r].pc = "idle"
    /\ reqs' =
         [reqs EXCEPT ![r] =
            IF IsRejectedBody(body)
              THEN [@ EXCEPT !.pc = "done", !.kind = kind, !.body = body,
                             !.response =
                               [status |-> 400,
                                body |-> [error |-> RequiredMessage(kind)],
                                headers |-> NoHeaders]]
              ELSE [@ EXCEPT !.pc = "read", !.kind = kind, !.body = body,
                             !.cachePrompt =
                               makeCachePrompt(
                                 kind, OPENAI_MODEL,
                                 normalizePromptInput(body.text))]]
    /\ UNCHANGED <<op, arg, ret, tables, env, cache, page>>

\* await cacheGet(cachePrompt), then the answer from the cache on a hit
CacheRead ==
  \E r \in Requests, storeError \in BOOLEAN :
    /\ reqs[r].pc = "read"
    /\ LET cached == cacheGet(reqs[r].cachePrompt, storeError)
       IN reqs' =
            [reqs EXCEPT ![r] =
               IF IsCachedObject(cached)
                 THEN [@ EXCEPT !.pc = "done", !.reads = @ + 1,
                                !.response =
                                  HitResponse(cached, reqs[r].cachePrompt)]
                 ELSE [@ EXCEPT !.pc = "llm", !.reads = @ + 1]]
    /\ UNCHANGED <<op, arg, ret, tables, env, cache, page>>

\* the request after a callLlm that gave nothing, where the error is handed
\* on to the cache write
LlmFailure_cachesError(request) ==
  [request EXCEPT !.pc = "write", !.llmCalls = @ + 1,
                  !.llm = [error |-> UnableMessage(request.kind),
                           source |-> "llm"]]

\* the request after a callLlm that gave nothing: 422
LlmFailure(request) ==
  [request EXCEPT !.pc = "done", !.llmCalls = @ + 1,
                  !.response =
                    [status |-> 422,
                     body |-> [error |-> UnableMessage(request.kind)],
                     headers |-> NoHeaders]]

\* the request after callLlm where a first call that gave nothing is repeated
LlmOutcome_retries(request, answer) ==
  LET called == IF request.kind = "chord"
                  THEN callLlmChord(env.apiKey, answer)
                  ELSE callLlmScale(env.apiKey, answer)
      llm == IF called = THROWN THEN NULL ELSE called
  IN IF llm = NULL /\ request.llmCalls = 0
       THEN [request EXCEPT !.llmCalls = @ + 1]
     ELSE IF llm = NULL THEN LlmFailure(request)
     ELSE [request EXCEPT !.pc = "write", !.llmCalls = @ + 1,
                          !.llm = [llm EXCEPT !.source = "llm"]]

\* the request after await callLlm(normalized) inside try / catch: a throw
\* leaves the result null
LlmOutcome(request, answer) ==
  LET called == IF request.kind = "chord"
                  THEN callLlmChord(env.apiKey, answer)
                  ELSE callLlmScale(env.apiKey, answer)
      llm == IF called = THROWN THEN NULL ELSE called
  IN IF llm = NULL THEN LlmFailure(request)
     ELSE [request EXCEPT !.pc = "write", !.llmCalls = @ + 1,
                          !.llm = [llm EXCEPT !.source = "llm"]]

\* await callLlm(normalized), then 422 when it gave nothing
LlmCall ==
  \E r \in Requests, answer \in RouteAnswers :
    /\ reqs[r].pc = "llm"
    /\ reqs' = [reqs EXCEPT ![r] = LlmOutcome(reqs[r], answer)]
    /\ UNCHANGED <<op, arg, ret, tables, env, cache, page>>

\* await cacheSet(cachePrompt, payload), then the answer with the payload
CacheWrite ==
  \E r \in Requests, upsertError \in BOOLEAN :
    /\ reqs[r].pc = "write"
    /\ LET write == cacheSet(upsertError)
       IN /\ cache' = IF write.ok
                        THEN Upsert(cache, reqs[r].cachePrompt,
                                    JSONStringify(reqs[r].llm))
                        ELSE cache
          /\ reqs' =
               [reqs EXCEPT ![r] =
                  [@ EXCEPT !.pc = "done", !.writes = @ + 1,
                            !.write = write,
                            !.response =
                              WriteResponse(reqs[r].llm, reqs[r].cachePrompt,
                                            write)]]
    /\ UNCHANGED <<op, arg, ret, tables, env, page>>

NextRoute ==
  \/ Receive
  \/ CacheRead
  \/ LlmCall
  \/ CacheWrite

SpecRoute == InitRoute /\ [][NextRoute]_vars

(***************************************************************************)
(* Specification of the page: the handlers of Home run one at a time, each *)
(* to its end or to its await of fetch; the part of analyzeChord and       *)
(* analyzeScale after the await runs when the response of that fetch       *)
(* arrives, and responses arrive in any order. A handler reads the values  *)
(* of the last render and queues its updates; Render takes the queued      *)
(* values, and PersistEffects runs the effects that render made due. An    *)
(* event handler runs only when the updates of the event handler before it *)
(* are rendered; the part of analyzeChord and analyzeScale after the await *)
(* runs at any time, so an event handler can run between it and its        *)
(* render. The Analyze button, the text input and the recent items of a    *)
(* kind exist while the rendered tab is that of the kind.                  *)
(***************************************************************************)
\* what is typed into an input: nothing, a query, a query after a blank
PageTexts == {<<>>, <<"C">>, <<" ", "E">>}

\* the bodies of the 200 responses of a route
RouteBodies(kind) ==
  {IF kind = "chord" THEN callLlmChord(TRUE, answer)
   ELSE callLlmScale(TRUE, answer) : answer \in RouteLlmAnswers}
    \ {NULL, THROWN}

\* how a fetch ends: res.ok with a body, a status that is not ok with the
\* error of the route, or a rejected fetch
FetchEnds(kind) ==
  {[kind |-> "ok", data |-> data] : data \in RouteBodies(kind)}
    \cup {[kind |-> "notOk", error |-> <<UnableMessage(kind)>>],
          [kind |-> "throws"]}

\* an item of a history that an earlier visit stored
StoredItem(kind, query, createdAt) ==
  [query |-> query, data |-> JSONParse(StoredResult(kind)),
   createdAt |-> createdAt]

\* a stored history of one item more than HISTORY_LIMIT, every item with
\* the query "a"
LongHistory(kind) ==
  [i \in 1..(HISTORY_LIMIT + 1) |-> StoredItem(kind, <<"a">>, i)]

\* localStorage at the mount: no items; a text that is no JSON and a JSON
\* value that is no array; histories of well-formed items, one longer than
\* the limit that holds a query more than once, and one of one item (the
\* mount effect takes any array as it is)
StoredHistories ==
  {[chords |-> NULL, scales |-> NULL],
   [chords |-> GarbageText, scales |-> JSONStringify(JsonString)],
   [chords |-> JSONStringify(ArrayValue(LongHistory("chord"))),
    scales |-> JSONStringify(ArrayValue(<<StoredItem("scale", <<"E">>, 1)>>))]}

InitPage ==
  /\ op = "init"
  /\ arg = <<>>
  /\ ret = NULL
  /\ harmonicPoints = HARMONIC_POINTS
  /\ allKeys = ALL_KEYS
  /\ env = [supabase |-> TRUE, apiKey |-> TRUE]
  /\ cache = EmptyCache
  /\ reqs = [r \in Requests |-> IdleRequest]
  /\ page \in {[InitialPage EXCEPT !.storage = stored] :
                 stored \in StoredHistories}

PendingFetches(kind) ==
  {i \in 1..Len(page.fetches) :
     page.fetches[i].kind = kind /\ page.fetches[i].pc = "pending"}

pageUnchanged == <<op, arg, ret, tables, routeState>>

\* the effects of the mount and of the last render have run. The persisting
\* effects write localStorage, which nothing but the effects of the mount
\* reads, so the order of an effect and a handler makes no difference, and
\* the model runs the effects of a render before the next handler.
EffectsDone == page.mounted /\ page.effects = NoHistory

\* an event handler can run: the updates of the event handler before it
\* are rendered
CanHandleEvent == EffectsDone /\ page.scheduled # "event"

\* the effects of the mount, run once after the first render in the order
\* of the source: the load effect sets the histories that localStorage
\* holds, and the persisting effects write the histories of the first
\* render, which are empty, over the items of localStorage
MountEffects ==
  /\ ~page.mounted
  /\ page' = Persisted(
               IF IsLoaded(page.storage.chords) \/ IsLoaded(page.storage.scales)
                 THEN SetState([page EXCEPT !.mounted = TRUE], "render",
                               LoadUpdates(page.storage))
                 ELSE [page EXCEPT !.mounted = TRUE],
               [chords |-> TRUE, scales |-> TRUE])
  /\ UNCHANGED pageUnchanged

\* a render of Home and its commit: the queued updates become the values of
\* the render, the responses that queued them are rendered, and the
\* persisting effect of every history that an update set is due. The
\* effects of a render run before the next render.
Render ==
  /\ EffectsDone
  /\ page.scheduled # "none"
  /\ page' = [page EXCEPT
                !.activeTab = page.queued.activeTab,
                !.scaleText = page.queued.scaleText,
                !.scale = page.queued.scale,
                !.recentScales = page.queued.recentScales,
                !.chordText = page.queued.chordText,
                !.chord = page.queued.chord,
                !.recentChords = page.queued.recentChords,
                !.scheduled = "none",
                !.changed = NoHistory,
                !.effects = page.changed,
                !.fetches = [i \in 1..Len(page.fetches) |->
                               IF page.fetches[i].pc = "arrived"
                                 THEN [page.fetches[i] EXCEPT !.pc = "done"]
                                 ELSE page.fetches[i]]]
  /\ UNCHANGED pageUnchanged

\* the persisting effects that the last render made due
PersistEffects ==
  /\ page.effects # NoHistory
  /\ page' = [Persisted(page, page.effects) EXCEPT !.effects = NoHistory]
  /\ UNCHANGED pageUnchanged

\* onClick of the tab "Scale / Key"
SelectScaleTab ==
  /\ CanHandleEvent
  /\ page' = SetState(page, "event",
                      [activeTab |-> "scale", chord |-> NoneState,
                       chordText |-> <<>>])
  /\ UNCHANGED pageUnchanged

\* onClick of the tab "Chord"
SelectChordTab ==
  /\ CanHandleEvent
  /\ page' = SetState(page, "event",
                      [activeTab |-> "chord", scale |-> NoneState,
                       scaleText |-> <<>>])
  /\ UNCHANGED pageUnchanged

\* onClick of "Show all"
ShowAll ==
  /\ CanHandleEvent
  /\ page' = SetState(page, "event",
                      [scale |-> NoneState, scaleText |-> <<>>,
                       chord |-> NoneState, chordText |-> <<>>])
  /\ UNCHANGED pageUnchanged

\* onChange of the chord input
ChangeChordText ==
  /\ CanHandleEvent
  /\ page.activeTab = "chord"
  /\ \E text \in PageTexts :
       page' = SetState(page, "event", [chordText |-> text])
  /\ UNCHANGED pageUnchanged

\* onChange of the scale input
ChangeScaleText ==
  /\ CanHandleEvent
  /\ page.activeTab = "scale"
  /\ \E text \in PageTexts :
       page' = SetState(page, "event", [scaleText |-> text])
  /\ UNCHANGED pageUnchanged

\* analyzeChord up to its await of fetch
AnalyzeChordClick ==
  /\ CanHandleEvent
  /\ page.activeTab = "chord"
  /\ LET trimmed == trim(page.chordText)
         cached == getCachedChord(page.recentChords, trimmed)
     IN IF trimmed = <<>>
          THEN page' = SetState(page, "event", [chord |-> NoneState])
        ELSE IF cached # NULL
          THEN page' = SetState(page, "event",
                                [scale |-> NoneState, scaleText |-> <<>>,
                                 chord |-> SuccessState(cached)])
        ELSE
          /\ Len(page.fetches) < MaxFetches
          /\ page' = SetState(
                       [page EXCEPT
                          !.fetches =
                            Append(@, [kind |-> "chord", query |-> trimmed,
                                       pc |-> "pending", end |-> NULL])],
                       "event",
                       [scale |-> NoneState, scaleText |-> <<>>,
                        chord |-> LoadingState])
  /\ UNCHANGED pageUnchanged

\* analyzeChord after its await: the response of a pending fetch. The
\* function handed to setRecentChords gets the history the queued updates
\* left.
ChordResponse ==
  /\ EffectsDone
  /\ \E i \in PendingFetches("chord"), end \in FetchEnds("chord") :
       LET arrived == [page EXCEPT !.fetches[i].pc = "arrived",
                                   !.fetches[i].end = end]
       IN page' =
            IF end.kind = "notOk"
              THEN SetState(arrived, "render",
                            [chord |-> ErrorState(IF end.error = <<>>
                                                    THEN "Could not parse chord"
                                                    ELSE end.error[1])])
            ELSE IF end.kind = "ok"
              THEN SetState(arrived, "render",
                            [chord |-> SuccessState(end.data),
                             recentChords |->
                               upsertChordHistory(page.queued.recentChords,
                                                  page.fetches[i].query,
                                                  end.data, Now + 1)])
            ELSE SetState(arrived, "render",
                          [chord |-> ErrorState("Network or LLM error")])
  /\ UNCHANGED pageUnchanged

\* analyzeScale up to its await of fetch
AnalyzeScaleClick ==
  /\ CanHandleEvent
  /\ page.activeTab = "scale"
  /\ LET trimmed == trim(page.scaleText)
         cached == getCachedScale(page.recentScales, trimmed)
     IN IF trimmed = <<>>
          THEN page' = SetState(page, "event", [scale |-> NoneState])
        ELSE IF cached # NULL
          THEN page' = SetState(page, "event",
                                [chord |-> NoneState, chordText |-> <<>>,
                                 scale |-> SuccessState(cached)])
        ELSE
          /\ Len(page.fetches) < MaxFetches
          /\ page' = SetState(
                       [page EXCEPT
                          !.fetches =
                            Append(@, [kind |-> "scale", query |-> trimmed,
                                       pc |-> "pending", end |-> NULL])],
                       "event",
                       [chord |-> NoneState, chordText |-> <<>>,
                        scale |-> LoadingState])
  /\ UNCHANGED pageUnchanged

\* analyzeScale after its await: the response of a pending fetch
ScaleResponse ==
  /\ EffectsDone
  /\ \E i \in PendingFetches("scale"), end \in FetchEnds("scale") :
       LET arrived == [page EXCEPT !.fetches[i].pc = "arrived",
                                   !.fetches[i].end = end]
       IN page' =
            IF end.kind = "notOk"
              THEN SetState(arrived, "render",
                            [scale |-> ErrorState(IF end.error = <<>>
                                                    THEN "Could not parse scale"
                                                    ELSE end.error[1])])
            ELSE IF end.kind = "ok"
              THEN SetState(arrived, "render",
                            [scale |-> SuccessState(end.data),
                             recentScales |->
                               upsertScaleHistory(page.queued.recentScales,
                                                  page.fetches[i].query,
                                                  end.data, Now + 1)])
            ELSE SetState(arrived, "render",
                          [scale |-> ErrorState("Network or LLM error")])
  /\ UNCHANGED pageUnchanged

\* onClick of an item of "Recent chords"
RecentChordClick ==
  /\ CanHandleEvent
  /\ page.activeTab = "chord"
  /\ \E i \in 1..Len(page.recentChords) :
       /\ i <= RecentShown
       /\ page' = SetState(page, "event",
                           [chordText |-> page.recentChords[i].query,
                            scale |-> NoneState, scaleText |-> <<>>,
                            chord |-> SuccessState(page.recentChords[i].data)])
  /\ UNCHANGED pageUnchanged

\* onClick of an item of "Recent scales"
RecentScaleClick ==
  /\ CanHandleEvent
  /\ page.activeTab = "scale"
  /\ \E i \in 1..Len(page.recentScales) :
       /\ i <= RecentShown
       /\ page' = SetState(page, "event",
                           [scaleText |-> page.recentScales[i].query,
                            chord |-> NoneState, chordText |-> <<>>,
                            scale |-> SuccessState(page.recentScales[i].data)])
  /\ UNCHANGED pageUnchanged

NextPage ==
  \/ MountEffects
  \/ Render
  \/ PersistEffects
  \/ SelectScaleTab
  \/ SelectChordTab
  \/ ShowAll
  \/ ChangeChordText
  \/ ChangeScaleText
  \/ AnalyzeChordClick
  \/ ChordResponse
  \/ AnalyzeScaleClick
  \/ ScaleResponse
  \/ RecentChordClick
  \/ RecentScaleClick

SpecPage == InitPage /\ [][NextPage]_vars

(***************************************************************************)
(* Properties                                                              *)
(***************************************************************************)
\* the pitch class a root token names
RootPitchClass(r) == NOTE_TO_PC[<<toUpperCase(Head(r))>> \o Tail(r)]

Maj7Text == <<"m", "a", "j", "7">>
SevenFlatFiveText == <<"7", "b", "5">>
MinorTokens == {<<"m">>, <<"m", "i", "n">>, <<"-">>}

\* C1: parseChordLocally("Cmaj7") has exactly the pitch classes {0,4,7,11}
\* and a label that starts with "C"; for every root r, r followed by "maj7"
\* yields the major seventh r+11 and not the minor seventh r+10.
C1_Maj7IsMajorSeventh ==
  op = "parseChordLocally" =>
    \A r \in RootSymbols :
      arg = r \o Maj7Text =>
        /\ ret # NULL
        /\ (RootPitchClass(r) + 11) % 12 \in Range(ret.pitchClasses)
        /\ (RootPitchClass(r) + 10) % 12 \notin Range(ret.pitchClasses)
        /\ r = <<"C">> =>
             /\ Range(ret.pitchClasses) = {0, 4, 7, 11}
             /\ Head(ret.label) = "C"

\* C2: for every root r and minor quality token q, r q "7b5" gives exactly
\* the four pitch classes r, r+3, r+6, r+10 (mod 12): the root is there and
\* the perfect fifth r+7 is replaced, not kept next to the diminished fifth.
C2_MinorSevenFlatFive ==
  op = "parseChordLocally" =>
    \A r \in RootSymbols, q \in MinorTokens :
      arg = r \o q \o SevenFlatFiveText =>
        LET pc == RootPitchClass(r) IN
        /\ ret # NULL
        /\ Len(ret.pitchClasses) = 4
        /\ Range(ret.pitchClasses)
             = {pc, (pc + 3) % 12, (pc + 6) % 12, (pc + 10) % 12}
        /\ (pc + 7) % 12 \notin Range(ret.pitchClasses)

C2_Witness ==
  /\ op = "parseChordLocally"
  /\ arg = <<"F", "#", "m", "7", "b", "5">>
  /\ ret # NULL
  /\ ret.pitchClasses = <<6, 9, 0, 4>>

\* the trimmed input is matched by /^([A-Ga-g][#b]?)(.*)$/: it starts with
\* a letter A-G of either case and holds no line break
HasRootToken(input) ==
  /\ trim(input) # <<>>
  /\ Head(trim(input)) \in NoteLetters
  /\ \A i \in 1..Len(trim(input)) : trim(input)[i] \notin LineTerminators

\* the trimmed text that follows the root token of an input that has one
TextAfterRoot(input) ==
  LET t == trim(input)
      n == IF Len(t) >= 2 /\ t[2] \in Accidentals THEN 2 ELSE 1
  IN trim(SubSeq(t, n + 1, Len(t)))

\* the text starts with a quality token of the table other than the empty one
StartsWithQualityToken(text) ==
  \E k \in DOMAIN QUALITY_MAP : k # <<>> /\ StartsWith(text, k)

\* the fifth of a major triad whose text is given: diminished when the text
\* holds b5 or dim5, else augmented when it holds #5 or +5, else perfect
FifthOf(text) ==
  IF Contains(text, <<"b", "5">>) \/ Contains(text, <<"d", "i", "m", "5">>)
    THEN 6
  ELSE IF Contains(text, <<"#", "5">>) \/ Contains(text, <<"+", "5">>)
    THEN 8
  ELSE 7

\* C3 as stated: parseChordLocally returns null whenever the text after a
\* valid root token is not empty and does not start with a quality token of
\* the table.
C3_UnknownQualityIsNull ==
  (/\ op = "parseChordLocally"
   /\ HasRootToken(arg)
   /\ TextAfterRoot(arg) # <<>>
   /\ ~StartsWithQualityToken(TextAfterRoot(arg)))
    => ret = NULL

\* C3 amended: parseChordLocally returns null exactly when the trimmed input
\* is empty, does not start with a letter A-G, or holds a line break; a text
\* after the root that starts with no quality token, empty or not, is read
\* with the major-triad quality: the first three pitch classes are the
\* root, the major third, and the fifth, which is diminished when the text
\* holds b5 or dim5, else augmented when it holds #5 or +5, else perfect;
\* and a 9 anywhere in that text adds the ninth.
C3_NullOnlyWithoutRoot ==
  op = "parseChordLocally" =>
    /\ (ret = NULL) <=> ~HasRootToken(arg)
    /\ (HasRootToken(arg) /\ ~StartsWithQualityToken(TextAfterRoot(arg))) =>
         LET pc == ret.root.pitchClass IN
         /\ Len(ret.pitchClasses) >= 3
         /\ ret.pitchClasses[1] = pc
         /\ ret.pitchClasses[2] = (pc + 4) % 12
         /\ ret.pitchClasses[3] = (pc + FifthOf(TextAfterRoot(arg))) % 12
         /\ Contains(TextAfterRoot(arg), <<"9">>) =>
              (pc + 2) % 12 \in Range(ret.pitchClasses)

C3_Witness ==
  /\ op = "parseChordLocally"
  /\ arg = <<"C", "7">>
  /\ ret # NULL
  /\ ret.pitchClasses = <<0, 4, 7, 10>>

\* the answer of the route to a request that is about to call the LLM, when
\* the LLM gives this answer: the 422 answer, or the answer that follows the
\* cache write, whose status and body are the same whether the write fails
RouteAnswerTo(request, answer) ==
  IF LlmOutcome(request, answer).pc = "done"
    THEN LlmOutcome(request, answer).response
    ELSE WriteResponse(LlmOutcome(request, answer).llm, request.cachePrompt,
                       cacheSet(FALSE))

\* the LLM answers with a JSON object that holds a tone list
AnsweredJson(answer) ==
  /\ answer.kind = "ok"
  /\ answer.content.kind = "json"
  /\ "tones" \in DOMAIN answer.content.value

\* the parseChordLocally half of C4
LocalChordHoldsRoot ==
  (op = "parseChordLocally" /\ ret # NULL) =>
    ret.root.pitchClass \in Range(ret.pitchClasses)

\* C4: every ParsedChord produced by parseChordLocally or by the chord route
\* holds its root's pitch class in pitchClasses, and a degreeMap it carries
\* maps the root's pitch class to "1".
C4_RootInPitchClasses ==
  /\ LocalChordHoldsRoot
  /\ \A r \in Requests :
       (reqs[r].kind = "chord" /\ reqs[r].llm # NULL) =>
         /\ reqs[r].llm.root.pitchClass \in Range(reqs[r].llm.pitchClasses)
         /\ reqs[r].llm.root.pitchClass \in DOMAIN reqs[r].llm.degreeMap
         /\ reqs[r].llm.degreeMap[reqs[r].llm.root.pitchClass] = "1"

\* C5: when the LLM answer holds at least one tone whose note name parseNote
\* rejects, the route answers 422, never with a result built from the tones
\* that did parse.
C5_NoPartialResult ==
  \A r \in Requests :
    reqs[r].pc = "llm" =>
      \A answer \in RouteAnswers :
        (/\ AnsweredJson(answer)
         /\ \E i \in 1..Len(answer.content.value.tones) :
              parseNote(answer.content.value.tones[i].note) = NULL)
          => RouteAnswerTo(reqs[r], answer).status = 422

\* the root pitch class of a route's result
BodyRootPitchClass(kind, body) ==
  IF kind = "chord" THEN body.root.pitchClass ELSE body.rootPitchClass

\* the tone list holds a tone of pitch class pc at position i, and none before
IsFirstOccurrence(tones, i, pc) ==
  /\ parseNote(tones[i].note) # NULL
  /\ parseNote(tones[i].note).pitchClass = pc
  /\ \A j \in 1..(i - 1) :
       parseNote(tones[j].note) = NULL \/ parseNote(tones[j].note).pitchClass # pc

\* the degreeMap of a result follows the first-occurrence rule for the tones
FirstLabelsKept(kind, tones, body) ==
  /\ BodyRootPitchClass(kind, body) \in DOMAIN body.degreeMap
  /\ body.degreeMap[BodyRootPitchClass(kind, body)] = "1"
  /\ \A i \in 1..Len(tones), pc \in PitchClass :
       (IsFirstOccurrence(tones, i, pc)
          /\ pc # BodyRootPitchClass(kind, body)) =>
         /\ pc \in DOMAIN body.degreeMap
         /\ body.degreeMap[pc] = tones[i].degree

\* C6: the degreeMap of an accepted tone list maps each pitch class of the
\* list other than the root's to the degree label of its first occurrence,
\* and the root's pitch class to "1".
C6_FirstLabelWins ==
  \A r \in Requests :
    reqs[r].pc = "llm" =>
      \A answer \in RouteAnswers :
        (AnsweredJson(answer)
           /\ RouteAnswerTo(reqs[r], answer).status = 200) =>
          FirstLabelsKept(reqs[r].kind, answer.content.value.tones,
                          RouteAnswerTo(reqs[r], answer).body)

\* a letter A-G, at most one accidental, an optional integer octave
IsOctaveText(s) ==
  \/ s # <<>> /\ AllDigits(s)
  \/ Len(s) >= 2 /\ Head(s) = "-" /\ AllDigits(Tail(s))

IsNoteToken(s) ==
  /\ s # <<>>
  /\ Head(s) \in NoteLetters
  /\ \E a \in 0..1 :
       /\ Len(s) >= 1 + a
       /\ a = 1 => s[2] \in Accidentals
       /\ LET o == SubSeq(s, 2 + a, Len(s)) IN o = <<>> \/ IsOctaveText(o)

\* C7: for every valid note token, the sharp name and the flat name of the
\* parsed pitch class both parse back to that pitch class; the enharmonic
\* pairs and the theoretical spellings parse to the pitch classes of the table.
C7_RoundTrip ==
  (op = "parseNote" /\ IsNoteToken(arg)) =>
    /\ ret # NULL
    /\ ret.pitchClass \in PitchClass
    /\ \A preferSharps \in BOOLEAN :
         LET back == parseNote(pitchClassToName(ret.pitchClass, preferSharps))
         IN back # NULL /\ back.pitchClass = ret.pitchClass
    /\ \A l \in {"C", "D", "E", "F", "G", "A", "B"} :
         LET natural == CASE l = "C" -> 0 [] l = "D" -> 2 [] l = "E" -> 4
                          [] l = "F" -> 5 [] l = "G" -> 7 [] l = "A" -> 9
                          [] l = "B" -> 11
         IN (toUpperCase(Head(arg)) = l) =>
              ret.pitchClass =
                IF Len(arg) >= 2 /\ arg[2] = "#" THEN (natural + 1) % 12
                ELSE IF Len(arg) >= 2 /\ arg[2] = "b" THEN (natural + 11) % 12
                ELSE natural

C7_Witness ==
  /\ op = "parseNote"
  /\ arg = <<"b", "b", "-", "1">>
  /\ ret # NULL
  /\ ret.pitchClass = 10
  /\ parseNote(pitchClassToName(10, TRUE)).pitchClass = 10
  /\ parseNote(pitchClassToName(10, FALSE)).pitchClass = 10

\* C8 as stated: parseNote returns null for every string that is not a
\* letter A-G followed by at most one accidental and an optional octave.
C8_NullUnlessToken ==
  (op = "parseNote" /\ ~IsNoteToken(arg)) => ret = NULL

\* C8 amended: parseNote trims its input first, and returns null (it does
\* not throw) for every string whose trimmed text is not such a token.
C8_NullUnlessTrimmedToken ==
  (op = "parseNote" /\ ~IsNoteToken(trim(arg))) => ret = NULL

C8_Witness ==
  /\ op = "parseNote"
  /\ arg = <<"C", "#", "#">>
  /\ ret = NULL

MajorPattern == {0, 2, 4, 5, 7, 9, 11}
MinorPattern == {0, 2, 3, 5, 7, 8, 10}

ExpectedScale(root, mode) ==
  {(root + i) % 12 : i \in IF mode = MajorMode THEN MajorPattern ELSE MinorPattern}

\* C9: for every root pc and both modes, the scale of keySetFromRoot has
\* exactly 7 distinct members, holds pc, and is pc plus the mode's interval
\* pattern mod 12; ALL_KEYS holds exactly these 24 signatures.
C9_SevenToneScales ==
  /\ op = "keySetFromRoot" =>
       /\ Len(ret.scale) = 7
       /\ Cardinality(Range(ret.scale)) = 7
       /\ arg.root \in Range(ret.scale)
       /\ Range(ret.scale) = ExpectedScale(arg.root, arg.mode)
       /\ \E i \in 1..Len(ALL_KEYS) : ALL_KEYS[i] = ret
  /\ op = "ALL_KEYS" =>
       /\ Len(ALL_KEYS) = 24
       /\ ret.root \in PitchClass /\ ret.mode \in Mode
       /\ Range(ret.scale) = ExpectedScale(ret.root, ret.mode)
       /\ Cardinality(Range(ret.scale)) = 7
       /\ \A j \in 0..(Len(ALL_KEYS) - 1) :
            (ALL_KEYS[j + 1].root = ret.root /\ ALL_KEYS[j + 1].mode = ret.mode)
              => j = arg

C9_Witness ==
  /\ op = "keySetFromRoot"
  /\ arg = [root |-> 9, mode |-> MinorMode]
  /\ ret.scale = <<9, 11, 0, 2, 4, 5, 7>>

EbMajorLabel == <<"E", "b", " ", "m", "a", "j", "o", "r">>
DSharpMajorLabel == <<"D", "#", " ", "m", "a", "j", "o", "r">>

\* C10: the label of a built-in key uses the root-specific spelling table:
\* keySetFromRoot(3, "major") is labelled "Eb major", no built-in key is
\* labelled "D# major", and the major keys on 1, 3, 8, 10 read Db, Eb, Ab, Bb.
C10_KeyLabels ==
  (op \in {"keySetFromRoot", "ALL_KEYS"}) =>
    /\ ret.label # DSharpMajorLabel
    /\ (ret.root = 3 /\ ret.mode = MajorMode) => ret.label = EbMajorLabel
    /\ (ret.mode = MajorMode /\ ret.root \in {1, 3, 8, 10}) =>
         /\ ret.label = FLAT_NAMES[ret.root + 1] \o <<" ">> \o MajorMode
         /\ ret.label[2] = "b"

C10_Witness ==
  /\ op = "ALL_KEYS"
  /\ arg = 6
  /\ ret.label = EbMajorLabel

(***************************************************************************)
(* Markers and tunings                                                     *)
(***************************************************************************)
\* the key and the chord a call of the generator works with
ActiveKey ==
  IF op = "markers"
    THEN IF arg.activeTab = "scale" /\ arg.scaleData # NULL
           THEN [root |-> arg.scaleData.rootPitchClass,
                 scale |-> arg.scaleData.pitchClasses]
           ELSE NULL
    ELSE arg.key

ActiveChord ==
  IF op = "markers"
    THEN IF arg.activeTab = "chord" THEN arg.chordData ELSE NULL
    ELSE arg.chord

GeneratorOps == {"buildFretboardHarmonics", "buildFretboardNotes", "markers"}

\* C11: every marker produced with an active key, one of the built-in keys
\* or the key the page builds from the scale route's answer, that is the
\* root is in the key.
C11_RootMarkerIsInKey ==
  (op \in GeneratorOps /\ ActiveKey # NULL) =>
    \A i \in 1..Len(ret) : ret[i].isRoot => ret[i].isInKey

Pitches(strings) == [i \in 1..Len(strings) |-> strings[i].midi]

GuitarBase(preset) ==
  IF preset = "fourths" THEN <<40, 45, 50, 55, 60, 65>>
  ELSE <<40, 45, 50, 55, 59, 64>>

\* C12: for the presets standard and fourths and every stringCount n >= 1,
\* presetTuning returns n strings in strictly ascending pitch: the bass
\* bases for n = 4 and n = 5, the n highest strings of the 6-string base for
\* n < 4 and n = 6, the 6-string base over n-6 strings that descend by 5
\* semitones for n > 6; standard with n = 6 starts and ends on an E (40, 64).
C12_PresetTuning ==
  (op = "presetTuning" /\ arg.preset \in {"standard", "fourths"}) =>
    LET n == arg.stringCount
        pitches == Pitches(ret)
        base == GuitarBase(arg.preset)
    IN /\ Len(ret) = n
       /\ \A i \in 1..(n - 1) : pitches[i] < pitches[i + 1]
       /\ n = 4 => pitches = <<28, 33, 38, 43>>
       /\ n = 5 => pitches = <<28, 33, 38, 43, 48>>
       /\ (n < 4 \/ n = 6) => pitches = SubSeq(base, 6 - n + 1, 6)
       /\ n > 6 =>
            /\ SubSeq(pitches, n - 6 + 1, n) = base
            /\ \A i \in 1..(n - 6) : pitches[i] = pitches[i + 1] - 5
       /\ (n = 6 /\ arg.preset = "standard") =>
            /\ Head(ret[1].label) = "E" /\ ret[1].midi = 40
            /\ Head(ret[6].label) = "E" /\ ret[6].midi = 64

\* fourths tuning on 8 strings: two strings added under the low E
C12_Witness ==
  /\ op = "presetTuning"
  /\ arg = [preset |-> "fourths", stringCount |-> 8]
  /\ Pitches(ret) = <<30, 35, 40, 45, 50, 55, 60, 65>>

\* the inputs up to position i that parse as a note
ParsedUpTo(inputs, i) == {j \in 1..i : parseNote(inputs[j]) # NULL}

ExpectedMessage(position, input) ==
  <<"S", "t", "r", "i", "n", "g", " ">> \o NumberToText(position)
    \o <<":", " ", "i", "n", "v", "a", "l", "i", "d", " ",
         "n", "o", "t", "e", " ", "\"">> \o input \o <<"\"">>

\* C13: parseCustomTuning on n inputs returns strings and errors whose
\* lengths add up to n; the input at position i that parses gives the
\* StringNote at its rank among the parsed inputs, with pitch
\* (octave + 1) * 12 + pitchClass and octave 3 when it names none; the input
\* that does not parse gives, at its rank among the rejected inputs, the
\* error that names i and quotes the input.
C13_CustomTuningPartition ==
  op = "parseCustomTuning" =>
    LET n == Len(arg)
    IN /\ Len(ret.strings) + Len(ret.errors) = n
       /\ \A i \in 1..n :
            LET rank == Cardinality(ParsedUpTo(arg, i))
                note == parseNote(arg[i])
            IN IF note # NULL
                 THEN /\ rank <= Len(ret.strings)
                      /\ ret.strings[rank].pitchClass = note.pitchClass
                      /\ ret.strings[rank].midi =
                           ((IF note.octave = <<>> THEN 3 ELSE note.octave[1])
                              + 1) * 12 + note.pitchClass
                 ELSE /\ i - rank <= Len(ret.errors)
                      /\ ret.errors[i - rank] = ExpectedMessage(i, arg[i])

\* E2, an empty input and a: two strings around one error for string 2
C13_Witness ==
  /\ op = "parseCustomTuning"
  /\ arg = <<<<"E", "2">>, <<>>, <<"a">>>>
  /\ Pitches(ret.strings) = <<40, 57>>
  /\ ret.errors = <<ExpectedMessage(2, <<>>)>>

\* C14: buildTuning with the preset custom never throws, whatever the
\* stringCount and the length of customInputs, and returns a result with
\* strings and errors; a list shorter than stringCount is padded with C3.
C14_CustomNeverThrows ==
  (op = "buildTuning" /\ arg.preset = "custom") =>
    /\ ret # THROWN
    /\ DOMAIN ret = {"strings", "errors"}
    /\ Len(arg.customInputs) < arg.stringCount =>
         LET padded == [i \in 1..arg.stringCount |->
                          IF i <= Len(arg.customInputs)
                            THEN arg.customInputs[i] ELSE <<"C", "3">>]
         IN /\ Len(ret.strings) + Len(ret.errors) = arg.stringCount
            /\ ret = parseCustomTuning(padded, 3)

\* the markers of a list at a string and a fret
MarkersAt(list, stringIndex, fret) ==
  {i \in 1..Len(list) :
     list[i].stringIndex = stringIndex /\ list[i].fret = fret * FretUnit}

StandardSix == presetTuning("standard", 6)

\* C15: for a tuning of S strings and a fretCount N, buildFretboardNotes
\* returns S * (N + 1) markers, one for each string 0..S-1 and fret 0..N,
\* with pitch class (open pitch + fret) mod 12; on the standard 6-string
\* tuning string 0 has pitch class 4 at fret 0 and 5 at fret 1.
C15_OneNotePerStringAndFret ==
  op = "buildFretboardNotes" =>
    LET S == Len(arg.tuning)
        N == arg.fretCount
    IN /\ Len(ret) = S * (N + 1)
       /\ \A s \in 0..(S - 1), f \in 0..N :
            /\ Cardinality(MarkersAt(ret, s, f)) = 1
            /\ \A i \in MarkersAt(ret, s, f) :
                 ret[i].pitchClass = (arg.tuning[s + 1].midi + f) % 12
       /\ (arg.tuning = StandardSix /\ N >= 1) =>
            /\ \A i \in MarkersAt(ret, 0, 0) : ret[i].pitchClass = 4
            /\ \A i \in MarkersAt(ret, 0, 1) : ret[i].pitchClass = 5

\* the 150 markers of the standard tuning over 24 frets
C15_Witness ==
  /\ op = "buildFretboardNotes"
  /\ arg.tuning = StandardSix
  /\ arg.fretCount = 24
  /\ Len(ret) = 150
  /\ \E i \in MarkersAt(ret, 0, 1) : ret[i].pitchClass = 5
  /\ \E i \in MarkersAt(ret, 5, 24) : ret[i].pitchClass = 4

\* C16: on every marker of the generator, isInKey holds exactly when a key
\* is active and the pitch class is in its scale, isRoot exactly when a key
\* is active and the pitch class is its root, inChord exactly when a chord
\* is active and the pitch class is one of its pitchClasses; without key and
\* chord the three flags are false.
C16_FlagsAreMemberships ==
  op \in GeneratorOps =>
    /\ \A i \in 1..Len(ret) :
         LET pc == ret[i].pitchClass
         IN /\ ret[i].isInKey <=>
                 (ActiveKey # NULL /\ pc \in Range(ActiveKey.scale))
            /\ ret[i].isRoot <=> (ActiveKey # NULL /\ pc = ActiveKey.root)
            /\ ret[i].inChord <=>
                 (ActiveChord # NULL /\ pc \in Range(ActiveChord.pitchClasses))
    /\ (ActiveKey = NULL /\ ActiveChord = NULL) =>
         \A i \in 1..Len(ret) :
           ~ret[i].isInKey /\ ~ret[i].isRoot /\ ~ret[i].inChord

\* harmonics of the standard tuning in A minor under an E minor seventh
\* chord: a root marker, a marker in key and chord that is no root, a marker
\* outside the key
C16_Witness ==
  /\ op = "buildFretboardHarmonics"
  /\ arg.tuning = StandardSix
  /\ arg.key # NULL /\ arg.key.root = 9 /\ arg.key.mode = MinorMode
  /\ arg.chord # NULL /\ arg.chord.pitchClasses = <<4, 7, 11, 2>>
  /\ \E i \in 1..Len(ret) : ret[i].isRoot /\ ret[i].isInKey /\ ~ret[i].inChord
  /\ \E i \in 1..Len(ret) : ~ret[i].isRoot /\ ret[i].isInKey /\ ret[i].inChord
  /\ \E i \in 1..Len(ret) : ~ret[i].isInKey /\ ~ret[i].inChord

\* round(12 * log2(partial)) for the partials 2..6
ExpectedShift(partial) ==
  CASE partial = 2 -> 12 [] partial = 3 -> 19 [] partial = 4 -> 24
    [] partial = 5 -> 28 [] partial = 6 -> 31

\* C17: computeHarmonicsForString(p) returns one marker for each of the
\* frets 3.2, 4, 5, 7, 9, 12, 16, 19, in this order, with partials that do
\* not depend on p; the marker at fret 12 has partial 2 and the pitch class
\* p mod 12; every marker has the pitch class
\* (p + round(12 * log2(partial))) mod 12.
C17_HarmonicsOfString ==
  op = "computeHarmonicsForString" =>
    /\ [i \in 1..Len(ret) |-> ret[i].fret] =
         <<32, 40, 50, 70, 90, 120, 160, 190>>
    /\ [i \in 1..Len(ret) |-> ret[i].partial] = <<6, 5, 4, 3, 5, 2, 5, 3>>
    /\ ret[6].partial = 2 /\ ret[6].pitchClass = arg % 12
    /\ \A i \in 1..Len(ret) :
         ret[i].pitchClass = (arg + ExpectedShift(ret[i].partial)) % 12

\* the harmonics of the low E string: E3 at fret 12, B3 at fret 7
C17_Witness ==
  /\ op = "computeHarmonicsForString"
  /\ arg = 40
  /\ ret[6].label = <<"E", "3">> /\ ret[6].partial = 2
  /\ ret[4].label = <<"B", "3">> /\ ret[4].pitchClass = 11

(***************************************************************************)
(* Cache                                                                   *)
(***************************************************************************)
\* the positions where a word of s, a longest run without whitespace, starts
WordStarts(s) ==
  {i \in 1..Len(s) :
     s[i] \notin WhiteSpace /\ (i = 1 \/ s[i - 1] \in WhiteSpace)}

\* the words of s, in order
WordsOf(s) ==
  [r \in 1..Cardinality(WordStarts(s)) |->
     LET start == CHOOSE i \in WordStarts(s) :
                    Cardinality({j \in WordStarts(s) : j <= i}) = r
         end == CHOOSE j \in start..Len(s) :
                  /\ \A k \in start..j : s[k] \notin WhiteSpace
                  /\ j = Len(s) \/ s[j + 1] \in WhiteSpace
     IN SubSeq(s, start, end)]

\* C19: makeCachePrompt gives one key to all inputs that differ only by
\* whitespace at the ends or by the whitespace between their words;
\* normalizePromptInput is idempotent, so the key of the normalized input,
\* which is the key a route computes, is the key of the raw input.
C19_KeyIgnoresWhitespace ==
  op = "makeCachePrompt" =>
    /\ \A b \in PromptInputs :
         WordsOf(b) = WordsOf(arg.input) =>
           makeCachePrompt(arg.kind, arg.model, b) = ret
    /\ normalizePromptInput(normalizePromptInput(arg.input)) =
         normalizePromptInput(arg.input)
    /\ makeCachePrompt(arg.kind, arg.model, normalizePromptInput(arg.input))
         = ret

\* " C<tab>C" has the key of "C C" and not the key of "CC"
C19_Witness ==
  /\ op = "makeCachePrompt"
  /\ arg.input = <<" ", "C", "\t", "C">>
  /\ ret = makeCachePrompt(arg.kind, arg.model, <<"C", " ", "C">>)
  /\ ret # makeCachePrompt(arg.kind, arg.model, <<"C", "C">>)
  /\ normalizePromptInput(arg.input) = <<"C", " ", "C">>

\* C20: a request whose LLM call resolved and whose cache write failed,
\* because the store is not configured or the upsert failed, is answered
\* with status 200, the resolved result, x-cache MISS and x-cache-write ERR.
C20_WriteFailureStillAnswers ==
  \A r \in Requests :
    (reqs[r].pc = "done" /\ reqs[r].write # NULL /\ ~reqs[r].write.ok) =>
      /\ reqs[r].llm # NULL /\ reqs[r].llm.source = "llm"
      /\ reqs[r].response.status = 200
      /\ reqs[r].response.body = reqs[r].llm
      /\ reqs[r].response.headers["x-cache"] = "MISS"
      /\ reqs[r].response.headers["x-cache-write"] = "ERR"

\* a scale answered although the upsert failed, and a chord answered
\* although its upsert failed too: the store holds neither
C20_Witness ==
  /\ env.supabase
  /\ cache = EmptyCache
  /\ \E r \in Requests :
       /\ reqs[r].kind = "scale" /\ reqs[r].pc = "done"
       /\ reqs[r].write = [ok |-> FALSE, error |-> "upsert failed"]
       /\ reqs[r].response.status = 200
       /\ reqs[r].response.body.rootPitchClass = 4
       /\ reqs[r].response.headers["x-cache-write"] = "ERR"
  /\ \E r \in Requests :
       /\ reqs[r].kind = "chord" /\ reqs[r].pc = "done"
       /\ reqs[r].write # NULL /\ ~reqs[r].write.ok
       /\ reqs[r].response.status = 200
       /\ reqs[r].response.headers["x-cache"] = "MISS"

\* the object the store gives for a prompt: the parsed response of the row
\* when the store is configured, the row exists and its text is the JSON of
\* an object; NULL otherwise
StoredObject(prompt) ==
  IF /\ env.supabase
     /\ prompt \in DOMAIN cache
     /\ "json" \in DOMAIN cache[prompt]
     /\ "jsonString" \notin DOMAIN cache[prompt].json
    THEN cache[prompt].json
    ELSE NULL

\* C21: in every request with a valid input the cache read is made before
\* any LLM call. A read that answers is a hit: the response is the stored
\* object with x-cache HIT, and the request makes no LLM call and no cache
\* write, then or later. Where the store gives no object (no row, no
\* configuration, a text that is no JSON) the request goes on to callLlm, as
\* it does when the select fails; when the select succeeds and the store
\* holds an object, the read answers with it.
C21_ReadBeforeLlm ==
  [][\A r \in Requests :
       /\ reqs'[r].llmCalls > reqs[r].llmCalls =>
            reqs[r].reads = 1 /\ reqs[r].pc = "llm"
       /\ reqs[r].pc = "done" => reqs'[r] = reqs[r]
       /\ (reqs[r].pc = "read" /\ reqs'[r] # reqs[r]) =>
            LET stored == StoredObject(reqs[r].cachePrompt) IN
            /\ reqs'[r].reads = 1
            /\ reqs'[r].llmCalls = 0 /\ reqs'[r].writes = 0
            /\ cache' = cache
            /\ \/ /\ stored # NULL
                  /\ reqs'[r].pc = "done"
                  /\ reqs'[r].response.status = 200
                  /\ reqs'[r].response.body = stored
                  /\ reqs'[r].response.headers["x-cache"] = "HIT"
               \/ /\ reqs'[r].pc = "llm"
                  /\ reqs'[r].response = NULL
       \* a read whose select succeeds answers with the stored object
       \* whenever the store holds one
       /\ reqs[r].pc = "read" =>
            LET stored == StoredObject(reqs[r].cachePrompt)
                cached == cacheGet(reqs[r].cachePrompt, FALSE)
            IN /\ IsCachedObject(cached) <=> stored # NULL
               /\ stored # NULL =>
                    HitResponse(cached, reqs[r].cachePrompt).body = stored]_vars

\* a chord request that found a text that is no JSON, resolved and wrote,
\* and a later request for the same chord that was answered from the store
\* without a call and without a write
C21_Witness ==
  \E r1, r2 \in Requests :
    /\ reqs[r1].pc = "done" /\ reqs[r1].kind = "chord"
    /\ reqs[r1].reads = 1 /\ reqs[r1].llmCalls = 1 /\ reqs[r1].writes = 1
    /\ reqs[r1].write = [ok |-> TRUE]
    /\ reqs[r2].pc = "done" /\ reqs[r2].cachePrompt = reqs[r1].cachePrompt
    /\ reqs[r2].reads = 1 /\ reqs[r2].llmCalls = 0 /\ reqs[r2].writes = 0
    /\ reqs[r2].response.headers = ("x-cache" :> "HIT")
                                     @@ ("x-cache-key" :> reqs[r1].cachePrompt)
    /\ reqs[r2].response.body = reqs[r1].llm
    /\ reqs[r2].body.text # reqs[r1].body.text

\* C22: a POST whose body has no chord (scale) field, or one that is empty
\* or not a string, is answered with 400 and the message of the route, and
\* makes no cache read, no LLM call and no cache write; every other body is
\* not answered with 400.
C22_InvalidBodyIs400 ==
  \A r \in Requests :
    reqs[r].pc # "idle" =>
      LET body == reqs[r].body
          invalid == \/ body.kind \in {"missing", "notString"}
                     \/ body.kind = "text" /\ body.text = <<>>
      IN /\ invalid =>
              /\ reqs[r].pc = "done"
              /\ reqs[r].response.status = 400
              /\ reqs[r].response.body =
                   [error |-> IF reqs[r].kind = "chord"
                                THEN "Chord is required"
                                ELSE "Scale is required"]
              /\ reqs[r].reads = 0 /\ reqs[r].llmCalls = 0
              /\ reqs[r].writes = 0
              /\ reqs[r].cachePrompt = NULL
         /\ (~invalid /\ reqs[r].pc = "done") => reqs[r].response.status # 400

\* the empty chord and a scale that is no string are both rejected; the
\* table still holds what it held
C22_Witness ==
  /\ \E r \in Requests :
       /\ reqs[r].kind = "chord" /\ reqs[r].body = [kind |-> "text", text |-> <<>>]
       /\ reqs[r].response.status = 400
       /\ reqs[r].reads = 0
  /\ \E r \in Requests :
       /\ reqs[r].kind = "scale" /\ reqs[r].body = [kind |-> "notString"]
       /\ reqs[r].response.status = 400
       /\ reqs[r].llmCalls = 0 /\ reqs[r].writes = 0
  /\ cache # EmptyCache

\* answers with which callLlm gives nothing: a thrown fetch, a status that is
\* not ok, no content, a content safeParse rejects, a root parseNote rejects
FailingAnswers ==
  {answer \in RouteAnswers :
     \/ answer.kind \in {"notFetched", "throws", "notOk"}
     \/ /\ answer.kind = "ok"
        /\ \/ answer.content.kind \in {"absent", "malformed"}
           \/ "tones" \notin DOMAIN answer.content.value
           \/ parseNote(answer.content.value.root) = NULL}

\* C23: a request calls the LLM at most once, and only after a read that gave
\* nothing; whichever way that call fails (no API key, a status that is not
\* ok, a thrown fetch, no content or a malformed one, a root that does not
\* parse) the request ends with 422 and the route's "Unable to parse"
\* message, without a second call and without a cache write.
C23_OneLlmAttempt ==
  \A r \in Requests :
    /\ reqs[r].llmCalls <= 1
    /\ reqs[r].llmCalls = 1 => reqs[r].reads = 1 /\ reqs[r].pc \in {"write", "done"}
    /\ (reqs[r].pc = "done" /\ reqs[r].llmCalls = 1 /\ reqs[r].llm = NULL) =>
         /\ reqs[r].response.status = 422
         /\ reqs[r].response.body =
              [error |-> IF reqs[r].kind = "chord"
                           THEN "Unable to parse chord"
                           ELSE "Unable to parse scale"]
         /\ reqs[r].writes = 0
    /\ reqs[r].pc = "llm" =>
         \A answer \in FailingAnswers :
           LET after == LlmOutcome(reqs[r], answer) IN
           /\ after.pc = "done"
           /\ after.llmCalls = 1
           /\ after.response.status = 422
           /\ after.llm = NULL

\* with an API key: one scale request ended with 422 after its one call, and
\* a chord request is about to make its call
C23_Witness ==
  /\ env.apiKey
  /\ \E r \in Requests :
       /\ reqs[r].kind = "scale" /\ reqs[r].pc = "done"
       /\ reqs[r].llmCalls = 1 /\ reqs[r].llm = NULL
       /\ reqs[r].response.status = 422
       /\ reqs[r].response.body = [error |-> "Unable to parse scale"]
  /\ \E r \in Requests :
       /\ reqs[r].kind = "chord" /\ reqs[r].pc = "llm"
       /\ Cardinality(FailingAnswers) >= 5

\* the LLM answers ok with a JSON object {root, notes} (plus label for the
\* scale route) whose names all parse
AnsweredNotes(kind, answer) ==
  /\ answer.kind = "ok"
  /\ answer.content.kind = "json"
  /\ "notes" \in DOMAIN answer.content.value
  /\ kind = "scale" => "label" \in DOMAIN answer.content.value
  /\ parseNote(answer.content.value.root) # NULL
  /\ \A i \in 1..Len(answer.content.value.notes) :
       parseNote(answer.content.value.notes[i]) # NULL

\* C24: with an API key and an LLM answer of status 200 whose content is the
\* JSON {root, notes} (plus label for scales) with parsable names, the chord
\* route answers 200 with source "llm" and pitchClasses that hold the root's
\* pitch class, and the scale route answers 200 with source "llm", the LLM's
\* label and noteNames that hold the root's name.
C24_NotesAnswerResolves ==
  \A r \in Requests :
    reqs[r].pc = "llm" =>
      \A answer \in RouteAnswers :
        AnsweredNotes(reqs[r].kind, answer) =>
          /\ RouteAnswerTo(reqs[r], answer).status = 200
          /\ RouteAnswerTo(reqs[r], answer).body.source = "llm"
          /\ reqs[r].kind = "chord" =>
               parseNote(answer.content.value.root).pitchClass
                 \in Range(RouteAnswerTo(reqs[r], answer).body.pitchClasses)
          /\ reqs[r].kind = "scale" =>
               /\ RouteAnswerTo(reqs[r], answer).body.label
                    = answer.content.value.label
               /\ parseNote(answer.content.value.root).name
                    \in Range(RouteAnswerTo(reqs[r], answer).body.noteNames)

\* the degree label of an interval above the root
FixedDegree(interval) ==
  CASE interval = 0 -> "1" [] interval = 1 -> "b2" [] interval = 2 -> "2"
    [] interval = 3 -> "b3" [] interval = 4 -> "3" [] interval = 5 -> "4"
    [] interval = 6 -> "b5" [] interval = 7 -> "5" [] interval = 8 -> "#5"
    [] interval = 9 -> "6" [] interval = 10 -> "b7" [] interval = 11 -> "7"

\* C25: for an active chord and each pitch class, the chord degree is the
\* entry of the chord's degreeMap when there is one, and otherwise the label
\* of the fixed table for the interval (pc - root) mod 12; it is defined for
\* all 12 pitch classes and the degree of the root is "1".
C25_ChordDegree ==
  (op = "chordDegreeForPitchClass" /\ arg.chord # NULL) =>
    LET hasEntry == /\ "degreeMap" \in DOMAIN arg.chord
                    /\ arg.pc \in DOMAIN arg.chord.degreeMap
        rootPc == arg.chord.root.pitchClass
    IN /\ ret # <<>>
       /\ hasEntry => ret = <<arg.chord.degreeMap[arg.pc]>>
       /\ ~hasEntry =>
            \E interval \in 0..11 :
              /\ (rootPc + interval) % 12 = arg.pc
              /\ ret = <<FixedDegree(interval)>>
       /\ arg.pc = rootPc => ret = <<"1">>

\* the chord of the route with root E and the tone C: D has no entry and is
\* ten semitones above E
C25_Witness ==
  /\ op = "chordDegreeForPitchClass"
  /\ arg.chord # NULL
  /\ "degreeMap" \in DOMAIN arg.chord
  /\ arg.chord.root.pitchClass = 4
  /\ DOMAIN arg.chord.degreeMap = {0, 4}
  /\ arg.pc = 2
  /\ ret = <<"b7">>

\* what callLlm of a route can return when it resolves
ResolvedResults(kind) ==
  {IF kind = "chord" THEN callLlmChord(TRUE, answer)
   ELSE callLlmScale(TRUE, answer) :
     answer \in RouteLlmAnswers \ FailingAnswers}

\* the requests whose upsert under a prompt succeeded
Writers(prompt) ==
  {r \in Requests :
     /\ reqs[r].cachePrompt = prompt
     /\ reqs[r].write = [ok |-> TRUE]}

\* texts a table holds before the first request
EarlierTexts ==
  {GarbageText, JSONStringify(JsonString)}
    \cup {StoredResult(kind) : kind \in RouteKinds}

\* C26: every value the routes have written to the cache is a resolved chord
\* or scale: a request that ends with 400 or 422 makes no write, a request
\* that writes holds a result of callLlm, every row of the table is a text
\* from before the requests or the JSON of such a result, and no hit answers
\* with an error object.
C26_OnlyResultsAreCached ==
  /\ \A r \in Requests :
       /\ (reqs[r].response # NULL /\ reqs[r].response.status \in {400, 422}) =>
            reqs[r].writes = 0 /\ reqs[r].write = NULL
       /\ reqs[r].writes > 0 =>
            /\ reqs[r].llm \in ResolvedResults(reqs[r].kind)
            /\ reqs[r].response.status = 200
       /\ (reqs[r].response # NULL /\ reqs[r].response.status = 200) =>
            "error" \notin DOMAIN reqs[r].response.body
  /\ \A prompt \in DOMAIN cache :
       \/ cache[prompt] \in EarlierTexts
       \/ \E r \in Writers(prompt) :
            /\ cache[prompt] = JSONStringify(reqs[r].llm)
            /\ reqs[r].llm \in ResolvedResults(reqs[r].kind)

\* a scale request ended with 422 and a chord request wrote its result into
\* a table that was empty: the table holds that one row
C26_Witness ==
  \E r1, r2 \in Requests :
    /\ reqs[r1].kind = "scale" /\ reqs[r1].response # NULL
    /\ reqs[r1].response.status = 422 /\ reqs[r1].writes = 0
    /\ reqs[r2].kind = "chord" /\ reqs[r2].write = [ok |-> TRUE]
    /\ DOMAIN cache = {reqs[r2].cachePrompt}
    /\ cache[reqs[r2].cachePrompt] = JSONStringify(reqs[r2].llm)
    /\ reqs[r2].llm.pitchClasses = <<0>>

\* the requests that missed the cache for a prompt and called the LLM
Missed(prompt) ==
  {r \in Requests : reqs[r].cachePrompt = prompt /\ reqs[r].llmCalls = 1}

\* C27: when two or more requests for one normalized input all miss the
\* cache, each resolved one is answered with the result of its own LLM call
\* and upserts under the one key; once they have ended the table holds for
\* that key the value written by one of them.
C27_ConcurrentMisses ==
  \A r1, r2 \in Requests :
    (/\ r1 # r2
     /\ reqs[r1].cachePrompt # NULL
     /\ reqs[r1].cachePrompt = reqs[r2].cachePrompt
     /\ reqs[r1].llmCalls = 1 /\ reqs[r2].llmCalls = 1) =>
      LET prompt == reqs[r1].cachePrompt IN
      /\ \A r \in Missed(prompt) :
           (reqs[r].pc = "done" /\ reqs[r].llm # NULL) =>
             /\ reqs[r].response.status = 200
             /\ reqs[r].response.body = reqs[r].llm
             /\ reqs[r].response.headers["x-cache"] = "MISS"
             /\ reqs[r].response.headers["x-cache-key"] = prompt
             /\ reqs[r].writes = 1
      /\ Writers(prompt) # {} =>
           /\ Writers(prompt) \subseteq Missed(prompt)
           /\ prompt \in DOMAIN cache
           /\ \E r \in Writers(prompt) :
                cache[prompt] = JSONStringify(reqs[r].llm)

\* "C" and " C " were both resolved, to different chords, and both written:
\* each was answered with its own chord and the table holds one of the two
C27_Witness ==
  \E r1, r2 \in Requests :
    /\ reqs[r1].kind = "chord" /\ reqs[r2].kind = "chord"
    /\ reqs[r1].body = [kind |-> "text", text |-> <<"C">>]
    /\ reqs[r2].body = [kind |-> "text", text |-> <<" ", "C", " ">>]
    /\ reqs[r1].cachePrompt = reqs[r2].cachePrompt
    /\ reqs[r1].pc = "done" /\ reqs[r2].pc = "done"
    /\ reqs[r1].write = [ok |-> TRUE] /\ reqs[r2].write = [ok |-> TRUE]
    /\ reqs[r1].llm.root.pitchClass = 0 /\ reqs[r2].llm.root.pitchClass = 4
    /\ reqs[r1].response.body = reqs[r1].llm
    /\ reqs[r2].response.body = reqs[r2].llm
    /\ cache[reqs[r1].cachePrompt] = JSONStringify(reqs[r1].llm)

\* C28: after any sequence of tab switches, Analyze clicks, recent-item
\* clicks, "Show all" clicks and arrivals of pending responses, in what the
\* page renders scale.data and chord.data are never both non-null, and a
\* non-null chord.data (scale.data) occurs only while the active tab is
\* "chord" ("scale").
C28_OneDataAtATime ==
  /\ ~(page.scale.data # NULL /\ page.chord.data # NULL)
  /\ page.chord.data # NULL => page.activeTab = "chord"
  /\ page.scale.data # NULL => page.activeTab = "scale"

\* the data the page shows for a kind, and the text of the input of the kind
ShownData(state, kind) ==
  IF kind = "chord" THEN state.chord.data ELSE state.scale.data

TextOf(state, kind) ==
  IF kind = "chord" THEN state.chordText ELSE state.scaleText

\* the result of a fetch that has ended: the body of a 200 response, and
\* nothing for an error
ResultOf(fetch) == IF fetch.end.kind = "ok" THEN fetch.end.data ELSE NULL

\* C29: when Analyze is clicked for a text A and then for a text B of the
\* same kind and both are answered with a result, then at the render that
\* follows the later of the two responses, while the input still holds B
\* and the page shows data of that kind, the data shown is the result for
\* B, the last submitted query of that kind, whichever of the two responses
\* arrives last. (When the response for B is the later one the click for B
\* may also have come after the response for A.)
C29_LastQueryWins ==
  [][\A i, j \in 1..Len(page.fetches) :
       (/\ i < j
        /\ page.fetches[i].kind = page.fetches[j].kind
        /\ page.fetches[i].query # page.fetches[j].query
        /\ \A m \in (j + 1)..Len(page.fetches) :
             page.fetches[m].kind # page.fetches[j].kind
        /\ page.fetches[i].pc = "arrived" \/ page.fetches[j].pc = "arrived"
        /\ page'.fetches[i].pc = "done" /\ page'.fetches[j].pc = "done"
        /\ page'.fetches[i].end.kind = "ok"
        /\ page'.fetches[j].end.kind = "ok"
        /\ trim(TextOf(page', page.fetches[j].kind)) = page.fetches[j].query
        /\ ShownData(page', page.fetches[j].kind) # NULL) =>
         ShownData(page', page.fetches[j].kind) = ResultOf(page'.fetches[j])]_vars

\* the queries of a recent list
QueriesOf(recent) == {recent[i].query : i \in 1..Len(recent)}

\* the recent list of a kind as rendered, and as the queued updates leave it
RecentOf(state, kind) ==
  IF kind = "chord" THEN state.recentChords ELSE state.recentScales

QueuedRecentOf(state, kind) ==
  IF kind = "chord" THEN state.queued.recentChords
  ELSE state.queued.recentScales

\* a step from before to after is the Analyze click of a kind, made when
\* every update is rendered, for a query that the recent list holds: the
\* data of the list is set
IsServedFromList(before, after, kind) ==
  /\ before.mounted
  /\ before.scheduled = "none"
  /\ before.activeTab = kind
  /\ trim(TextOf(before, kind)) \in QueriesOf(RecentOf(before, kind))
  /\ \E n \in 1..Len(RecentOf(before, kind)) :
       /\ RecentOf(before, kind)[n].query = trim(TextOf(before, kind))
       /\ after =
            IF kind = "chord"
              THEN SetState(before, "event",
                            [scale |-> NoneState, scaleText |-> <<>>,
                             chord |->
                               SuccessState(RecentOf(before, kind)[n].data)])
              ELSE SetState(before, "event",
                            [chord |-> NoneState, chordText |-> <<>>,
                             scale |->
                               SuccessState(RecentOf(before, kind)[n].data)])

\* at most 12 entries and no two entries with one query
IsBoundedAndDistinct(recent) ==
  /\ Len(recent) <= 12
  /\ \A a, b \in 1..Len(recent) : a # b => recent[a].query # recent[b].query

\* the claim for the recent list of one kind, over a step
RecentListStep(before, after, kind) ==
  /\ IsBoundedAndDistinct(RecentOf(after, kind))
  /\ IsBoundedAndDistinct(QueuedRecentOf(after, kind))
  \* a successful analysis by the route: its query is put first, with its
  \* data, and the list gets no second entry for it
  /\ \A i \in 1..Len(before.fetches) :
       (/\ before.fetches[i].kind = kind
        /\ before.fetches[i].pc = "pending"
        /\ after.fetches[i].pc = "arrived"
        /\ after.fetches[i].end.kind = "ok") =>
         /\ QueuedRecentOf(after, kind) # <<>>
         /\ QueuedRecentOf(after, kind)[1].query = before.fetches[i].query
         /\ QueuedRecentOf(after, kind)[1].data = after.fetches[i].end.data
         /\ QueriesOf(QueuedRecentOf(after, kind)) \subseteq
              QueriesOf(QueuedRecentOf(before, kind))
                \cup {before.fetches[i].query}
  \* a successful analysis served from the list: its query is put first too,
  \* and no request is made
  /\ IsServedFromList(before, after, kind) =>
       /\ QueuedRecentOf(after, kind)[1].query = trim(TextOf(before, kind))
       /\ after.fetches = before.fetches
  \* a fetch is started only for a query the rendered list does not hold
  /\ \A i \in 1..Len(after.fetches) :
       (i > Len(before.fetches) /\ after.fetches[i].kind = kind) =>
         after.fetches[i].query \notin QueriesOf(RecentOf(before, kind))
  \* a render shows the list as the analyses left it
  /\ (before.scheduled # "none" /\ after.scheduled = "none") =>
       RecentOf(after, kind) = QueuedRecentOf(before, kind)

\* a recent list holds nothing but results of the analyses of this visit
IsOfAnalyses(recent, fetches, kind) ==
  \A n \in 1..Len(recent) :
    \E i \in 1..Len(fetches) :
      /\ fetches[i].kind = kind
      /\ fetches[i].pc # "pending"
      /\ fetches[i].end.kind = "ok"
      /\ fetches[i].query = recent[n].query
      /\ fetches[i].end.data = recent[n].data

\* the recent list of a kind, rendered and queued, holds nothing but results
\* of the analyses of this visit, as it does at every time when the history
\* started empty
FromAnalyses(state, kind) ==
  /\ IsOfAnalyses(RecentOf(state, kind), state.fetches, kind)
  /\ IsOfAnalyses(QueuedRecentOf(state, kind), state.fetches, kind)

\* C30: starting from an empty history, after any sequence of successful
\* chord (scale) analyses the recent list holds at most 12 entries, no two
\* entries with the same query text, and the most recently analysed query
\* first; analysing a query of the list moves it to the front with the new
\* data instead of adding a second entry, and a query served from the recent
\* list makes no request to the route.
C30_RecentList ==
  [][(page.mounted /\ FromAnalyses(page, "chord")
        /\ FromAnalyses(page, "scale")) =>
       /\ RecentListStep(page, page', "chord")
       /\ RecentListStep(page, page', "scale")]_vars

====
